---- MODULE Spec2Model ----
(***************************************************************************)
(* Operador - Controle de Acordos (src/src/App.jsx).                       *)
(*                                                                         *)
(* Strings are sequences of one-character strings, so that onlyDigits,     *)
(* norm, trim and includes are computed character by character as the      *)
(* JavaScript does.  The atoms "a~", "a'" and "c," stand for the single    *)
(* characters a-tilde, a-acute and c-cedilla.                              *)
(*                                                                         *)
(* An instant (a JavaScript Date, or the ISO string that round-trips it    *)
(* exactly) is a number of milliseconds counted from the first instant of  *)
(* local calendar day 0.  An absent date ('' or null) is <<>> and a        *)
(* present one is <<t>>.                                                   *)
(***************************************************************************)
EXTENDS Integers, Sequences, FiniteSets, TLC

VARIABLES
  \* ---- Temporal Classifier environment (App.jsx 408-435)
  zone,        \* the browser's time zone: where local days start
  now,         \* the wall clock
  today,       \* useMemo(() => new Date(), []): the clock at mount
  rec,         \* the record last classified
  out          \* what isPago / venceHoje / atrasado / daysLate returned for it

VARIABLES
  \* ---- React state of App (App.jsx 346-387)
  page,            \* 'dashboard' | 'clientes' | 'promessas'
  rows,            \* the working set
  wb,              \* the parsed workbook (its file), "" while none
  sheetNames,
  selectedSheet,
  fileLabel,
  q,               \* search query, a string as the strings of the records
  filter,          \* TODOS | VENCE_HOJE | ATRASADO | PAGO | PENDENTE
  promiseDraft,
  openPromiseModal,
  manualClients,   \* ManualClientStore, as JSON.parse returned it or as set since
  promises,        \* Promise Store, likewise
  \* ---- outside React
  lsManual,        \* localStorage[LS_MANUAL_CLIENTS]
  lsPromises,      \* localStorage[LS_PROMISES]
  readers,         \* FileReaders whose onload has not run yet, each with the
                   \* manualRows and promises its closure captured
  uidN,            \* number of uid() calls so far
  alertMsg,        \* the alert() of the latest handler, "" if it raised none
  crashed,         \* an exception escaped a render: React unmounted the tree
  ops              \* number of handlers that have run in this session

clsVars == <<zone, now, today, rec, out>>
navVars == <<page, q, filter>>
importVars == <<wb, sheetNames, selectedSheet, fileLabel>>
storeVars == <<manualClients, promises, lsManual, lsPromises>>
appVars ==
  <<page, rows, wb, sheetNames, selectedSheet, fileLabel, q, filter,
    promiseDraft, openPromiseModal, manualClients, promises, lsManual,
    lsPromises, readers, uidN, alertMsg, crashed, ops>>
vars ==
  <<zone, now, today, rec, out,
    page, rows, wb, sheetNames, selectedSheet, fileLabel, q, filter,
    promiseDraft, openPromiseModal, manualClients, promises, lsManual,
    lsPromises, readers, uidN, alertMsg, crashed, ops>>

(***************************************************************************)
(* Bounds                                                                  *)
(***************************************************************************)
MaxDay == 6          \* local calendar days 0..MaxDay
MaxTicks == 2        \* half-days the clock may advance after mount
MaxUid == 2          \* uid() calls in one session
MaxPending == 1      \* file reads in flight at once
MaxOps == 5          \* handlers run in one session

(***************************************************************************)
(* Characters and strings                                                  *)
(***************************************************************************)
Digits == {"0", "1", "2", "3", "4", "5", "6", "7", "8", "9"}

LowerLetters ==
  {"a", "b", "c", "d", "e", "f", "g", "h", "i", "j", "k", "l", "m",
   "n", "o", "p", "q", "r", "s", "t", "u", "v", "w", "x", "y", "z"}

\* String.prototype.toLowerCase on the characters the model uses
ToLower(c) ==
  CASE c = "A" -> "a" [] c = "B" -> "b" [] c = "C" -> "c" [] c = "D" -> "d"
    [] c = "E" -> "e" [] c = "F" -> "f" [] c = "G" -> "g" [] c = "H" -> "h"
    [] c = "I" -> "i" [] c = "J" -> "j" [] c = "K" -> "k" [] c = "L" -> "l"
    [] c = "M" -> "m" [] c = "N" -> "n" [] c = "O" -> "o" [] c = "P" -> "p"
    [] c = "Q" -> "q" [] c = "R" -> "r" [] c = "S" -> "s" [] c = "T" -> "t"
    [] c = "U" -> "u" [] c = "V" -> "v" [] c = "W" -> "w" [] c = "X" -> "x"
    [] c = "Y" -> "y" [] c = "Z" -> "z"
    [] c = "A~" -> "a~" [] c = "A'" -> "a'" [] c = "C," -> "c,"
    [] OTHER -> c

\* normalize('NFD') followed by the removal of the combining marks
StripAccent(c) ==
  CASE c = "a~" -> "a" [] c = "a'" -> "a" [] c = "c," -> "c" [] OTHER -> c

IsSpace(c) == c \in {" ", "\n", "\t"}

MapSeq(s, F(_)) == [i \in 1..Len(s) |-> F(s[i])]

RECURSIVE TrimLeft(_)
TrimLeft(s) ==
  IF s # <<>> /\ IsSpace(Head(s)) THEN TrimLeft(Tail(s)) ELSE s

RECURSIVE TrimRight(_)
TrimRight(s) ==
  IF s # <<>> /\ IsSpace(s[Len(s)])
  THEN TrimRight(SubSeq(s, 1, Len(s) - 1))
  ELSE s

\* String.prototype.trim
Trim(s) == TrimRight(TrimLeft(s))

\* replace(/\s+/g, ' ')
RECURSIVE CollapseSpaces(_)
CollapseSpaces(s) ==
  IF s = <<>> THEN <<>>
  ELSE IF IsSpace(Head(s))
       THEN <<" ">> \o CollapseSpaces(TrimLeft(s))
       ELSE <<Head(s)>> \o CollapseSpaces(Tail(s))

\* String.prototype.includes
Includes(hay, needle) ==
  \E i \in 1..(Len(hay) - Len(needle) + 1) :
    SubSeq(hay, i, i + Len(needle) - 1) = needle

\* String.prototype.startsWith
StartsWith(s, p) == Len(s) >= Len(p) /\ SubSeq(s, 1, Len(p)) = p

\* norm (App.jsx 31-40)
norm(s) ==
  LET lowered  == MapSeq(Trim(s), ToLower)
      stripped == MapSeq(lowered, StripAccent)
      cleaned  == MapSeq(stripped,
                    LAMBDA c : IF c \in LowerLetters \cup Digits \cup {" "}
                               THEN c ELSE " ")
  IN  Trim(CollapseSpaces(cleaned))

\* onlyDigits (App.jsx 41-43)
onlyDigits(s) == SelectSeq(s, LAMBDA c : c \in Digits)

(***************************************************************************)
(* Local time.  getFullYear/getMonth/getDate read the local calendar day   *)
(* of an instant, and new Date(y, m, d) is the first instant of a local    *)
(* calendar day.  In a zone with daylight saving one local day lasts 23    *)
(* hours (clocks go forward) or 25 hours (clocks go back).                 *)
(***************************************************************************)
MS_DAY == 86400000
MS_HOUR == MS_DAY \div 24

Days == 0..MaxDay

Zones ==
  {[kind |-> "none", at |-> 0]}
    \cup {[kind |-> k, at |-> d] : k \in {"forward", "back"}, d \in 1..(MaxDay - 1)}

\* new Date(y, m, d).getTime() for local calendar day d in zone z
DayStart(z, d) ==
  d * MS_DAY
    + (IF z.kind = "forward" /\ d > z.at THEN 0 - MS_HOUR
       ELSE IF z.kind = "back" /\ d > z.at THEN MS_HOUR
       ELSE 0)

\* the local calendar day (year, month, date) of instant t in zone z
DayOf(z, t) ==
  CHOOSE d \in (0 - 1)..(MaxDay + 1) : DayStart(z, d) <= t /\ t < DayStart(z, d + 1)

\* the instants the model draws dates from: the start and the middle of a day
Instants(z) == {DayStart(z, d) + h : d \in Days, h \in {0, 12 * MS_HOUR}}

\* sameDay (App.jsx 61-69), on two present dates
sameDay(z, a, b) == DayOf(z, a) = DayOf(z, b)

\* baseHoje (App.jsx 409-412)
baseHoje(z, td) == DayStart(z, DayOf(z, td))

(***************************************************************************)
(* Temporal Classifier (App.jsx 415-435); z and td are the zone and the    *)
(* memoised `today` the closures read.                                     *)
(***************************************************************************)
PAGO == <<"p", "a", "g", "o">>

\* vencDate (App.jsx 415-417)
vencDate(r) == r.VencimentoISO

\* isPago (App.jsx 418-420)
isPago(r) == Includes(norm(r.Status), PAGO)

\* venceHoje (App.jsx 421-424)
venceHoje(z, td, r) ==
  LET d == vencDate(r)
  IN  IF d # <<>> THEN sameDay(z, d[1], td) /\ ~isPago(r) ELSE FALSE

\* atrasado comparing with the clock instead of with midnight
atrasado_againstClock(z, td, r) ==
  LET d == vencDate(r)
  IN  IF d # <<>> THEN d[1] < td /\ ~isPago(r) ELSE FALSE

\* atrasado (App.jsx 425-428)
atrasado(z, td, r) ==
  LET d == vencDate(r)
  IN  IF d # <<>> THEN d[1] < baseHoje(z, td) /\ ~isPago(r) ELSE FALSE

\* daysLate (App.jsx 429-435)
daysLate(z, td, r) ==
  LET d == vencDate(r)
  IN  IF d = <<>> THEN 0
      ELSE LET baseVenc == DayStart(z, DayOf(z, d[1]))
               diff     == baseHoje(z, td) - baseVenc
           IN  diff \div MS_DAY

(***************************************************************************)
(* Values.  A JSON value held in manualClients is [k, a]: k is "null",     *)
(* "obj" (any value that is truthy and no array) or "arr", and a is the    *)
(* array.  A JSON value held in promises is [k, m]: k is "null", "num"     *)
(* (a value with no own keys) or "obj", and m maps keys to payloads.       *)
(* A localStorage entry is [t, v]: t is "missing" (getItem returns null),  *)
(* "garbage" (text that is no JSON) or "json" (the text of value v).       *)
(*                                                                         *)
(* Of a client record the model keeps _id, CPF, Nome, VencimentoISO,       *)
(* Telefone, Status, PromessaISO and _source, and of a promise payload and *)
(* of the promise draft the key and the date: Valor, TipoNegociacao, Obs,  *)
(* createdAt, updatedAt, note and snapshot are copied along by the code    *)
(* and read by no operation modelled here.                                 *)
(***************************************************************************)
NullArr == [k |-> "null", a |-> <<>>]
JArr(a) == [k |-> "arr", a |-> a]
NullMap == [k |-> "null", m |-> <<>>]
JObj(m) == [k |-> "obj", m |-> m]

\* JSON.stringify of a store, written by localStorage.setItem
Stringify(v) == [t |-> "json", v |-> v]

\* safeParse (App.jsx 93-99): JSON.parse(null) is null and does not throw
safeParse(doc, nullValue, fallback) ==
  IF doc.t = "missing" THEN nullValue
  ELSE IF doc.t = "garbage" THEN fallback
  ELSE doc.v

\* (manualClients || []): defined while the value is falsy or an array
ArrOf(mc) == mc.a

\* promises?.[key]
HasPromise(P, key) == P.k = "obj" /\ key \in DOMAIN P.m

\* (n).toString() for a small natural number, String(i + 1)
DigitChar(n) ==
  CASE n = 0 -> "0" [] n = 1 -> "1" [] n = 2 -> "2" [] n = 3 -> "3"
    [] n = 4 -> "4" [] n = 5 -> "5" [] n = 6 -> "6" [] n = 7 -> "7"
    [] n = 8 -> "8" [] n = 9 -> "9"

RECURSIVE DecStr(_)
DecStr(n) ==
  IF n < 10 THEN <<DigitChar(n)>>
  ELSE DecStr(n \div 10) \o <<DigitChar(n % 10)>>

DigitVal(c) == CHOOSE n \in 0..9 : DigitChar(n) = c

\* uid returning the same id at every call
uid_same(n) == <<"i", "d", ":", "0">>

\* uid (App.jsx 100-102): `id:${Date.now()}_${Math.random()...}`, taken to be
\* fresh at every call; the n-th call of the session returns "id:" n
uid(n) == <<"i", "d", ":">> \o DecStr(n)

\* an id that uid() returned in an earlier session
OldUid == <<"i", "d", ":", "o", "l", "d">>

CPF_PREFIX == <<"c", "p", "f", ":">>
TEL_PREFIX == <<"t", "e", "l", ":">>
CUSTOM_PREFIX == <<"c", "u", "s", "t", "o", "m", ":">>

CPF_MIN_DIGITS == 8
TEL_MIN_DIGITS == 10

\* keyForClientLike without onlyDigits: the key is made of the text as typed
keyForClientLike_asTyped(r) ==
  IF r.CPF # <<>> /\ Len(r.CPF) >= CPF_MIN_DIGITS THEN CPF_PREFIX \o r.CPF
  ELSE IF r.Telefone # <<>> /\ Len(r.Telefone) >= TEL_MIN_DIGITS
       THEN TEL_PREFIX \o r.Telefone
  ELSE <<>>

\* keyForClientLike (App.jsx 119-125)
keyForClientLike(r) ==
  LET cpf == onlyDigits(r.CPF)
      tel == onlyDigits(r.Telefone)
  IN  IF cpf # <<>> /\ Len(cpf) >= CPF_MIN_DIGITS THEN CPF_PREFIX \o cpf
      ELSE IF tel # <<>> /\ Len(tel) >= TEL_MIN_DIGITS THEN TEL_PREFIX \o tel
      ELSE <<>>

\* dateInputToISO returning the first day for an empty input
dateInputToISO_neverEmpty(z, yyyyMmDd) ==
  IF yyyyMmDd = <<>> THEN <<DayStart(z, 0)>> ELSE <<DayStart(z, yyyyMmDd[1])>>

\* dateInputToISO (App.jsx 103-109): the value of an <input type="date"> is
\* <<>> or <<d>>, d a local calendar day
dateInputToISO(z, yyyyMmDd) ==
  IF yyyyMmDd = <<>> THEN <<>> ELSE <<DayStart(z, yyyyMmDd[1])>>

\* isoToDateInput (App.jsx 110-118)
isoToDateInput(z, iso) ==
  IF iso = <<>> THEN <<>> ELSE <<DayOf(z, iso[1])>>

(***************************************************************************)
(* Reconciliation Engine (App.jsx 453-495)                                 *)
(***************************************************************************)

\* the updater of upsertPromiseByKey starting from an empty map instead of a
\* copy of the previous one
upsertPromise_fromScratch(prev, key, payloadOrNull) ==
  IF payloadOrNull = <<>> THEN JObj(<<>>)
  ELSE JObj([x \in {key} |-> payloadOrNull[1]])

\* the updater of upsertPromiseByKey (App.jsx 454-462)
upsertPromise(prev, key, payloadOrNull) ==
  LET base == IF prev.k = "obj" THEN prev.m ELSE <<>>
  IN  IF payloadOrNull = <<>>
      THEN JObj([x \in DOMAIN base \ {key} |-> base[x]])
      ELSE JObj([x \in DOMAIN base \cup {key} |->
                  IF x = key THEN payloadOrNull[1] ELSE base[x]])

\* mergePromisesIntoRows building its result with unshift: the records come
\* out in reverse order
mergePromisesIntoRows_unshift(inRows, P) ==
  [i \in 1..Len(inRows) |->
    LET r == inRows[Len(inRows) + 1 - i]
        k == keyForClientLike(r)
    IN  IF k # <<>> /\ HasPromise(P, k) /\ P.m[k].promiseISO # <<>>
        THEN [r EXCEPT !.PromessaISO = P.m[k].promiseISO]
        ELSE r]

\* mergePromisesIntoRows (App.jsx 465-472); P is the `promises` of the render
\* whose closure runs
mergePromisesIntoRows(inRows, P) ==
  [i \in 1..Len(inRows) |->
    LET r == inRows[i]
        k == keyForClientLike(r)
    IN  IF k # <<>> /\ HasPromise(P, k) /\ P.m[k].promiseISO # <<>>
        THEN [r EXCEPT !.PromessaISO = P.m[k].promiseISO]
        ELSE r]

\* manualRows (App.jsx 475-490), the memo of the render that holds mc
manualRows(mc) ==
  [i \in 1..Len(ArrOf(mc)) |->
    LET c == ArrOf(mc)[i]
    IN  [_id |-> c._id, CPF |-> c.CPF, Nome |-> c.Nome,
         VencimentoISO |-> c.VencimentoISO, Telefone |-> c.Telefone,
         Status |-> c.Status, PromessaISO |-> c.PromessaISO,
         _source |-> "manual"]]

\* composeRows without the manual rows in front
composeRows_importedOnly(importedRows, mc, P) ==
  LET imp == [i \in 1..Len(importedRows) |->
               [importedRows[i] EXCEPT !._source = "excel"]]
  IN  mergePromisesIntoRows(imp, P)

\* composeRows (App.jsx 492-495)
composeRows(importedRows, mc, P) ==
  LET imp == [i \in 1..Len(importedRows) |->
               [importedRows[i] EXCEPT !._source = "excel"]]
  IN  mergePromisesIntoRows(manualRows(mc) \o imp, P)

(***************************************************************************)
(* Header Heuristics Engine and Row Normalizer (App.jsx 44-60, 128-259).   *)
(* A sheet is an array of rows of cells; every cell is a string.           *)
(***************************************************************************)
HEADER_SCAN == 25
HEADER_MIN_FILLED == 3

Min(a, b) == IF a < b THEN a ELSE b

looksCpf(cell) ==
  LET t == norm(cell)
  IN  \/ t = <<"c", "p", "f">>
      \/ Includes(t, <<"c", "p", "f">>)
      \/ Includes(t, <<"c", "p", "f", " ", "c", "n", "p", "j">>)
      \/ Includes(t, <<"c", "p", "f", "/", "c", "n", "p", "j">>)
      \/ Includes(t, <<"d", "o", "c", "u", "m", "e", "n", "t", "o">>)

looksNome(cell) ==
  LET t == norm(cell)
  IN  \/ t = <<"n", "o", "m", "e">>
      \/ Includes(t, <<"n", "o", "m", "e">>)
      \/ Includes(t, <<"c", "l", "i", "e", "n", "t", "e">>)

\* findHeaderRow scanning the whole sheet instead of its first 25 rows
findHeaderRow_wholeSheet(aoa) ==
  LET both(i) == /\ \E c \in 1..Len(aoa[i + 1]) : looksCpf(aoa[i + 1][c])
                 /\ \E c \in 1..Len(aoa[i + 1]) : looksNome(aoa[i + 1][c])
      filled(i) == Cardinality({c \in 1..Len(aoa[i + 1]) : Trim(aoa[i + 1][c]) # <<>>})
      hits1 == {i \in 0..(Len(aoa) - 1) : both(i)}
      hits2 == {i \in 0..(Len(aoa) - 1) : filled(i) >= HEADER_MIN_FILLED}
      least(S) == CHOOSE i \in S : \A j \in S : i <= j
  IN  IF hits1 # {} THEN least(hits1)
      ELSE IF hits2 # {} THEN least(hits2)
      ELSE 0

\* findHeaderRow (App.jsx 128-167); row indices count from 0 as in the code
findHeaderRow(aoa) ==
  LET maxScan == Min(HEADER_SCAN, Len(aoa))
      both(i) == /\ \E c \in 1..Len(aoa[i + 1]) : looksCpf(aoa[i + 1][c])
                 /\ \E c \in 1..Len(aoa[i + 1]) : looksNome(aoa[i + 1][c])
      filled(i) == Cardinality({c \in 1..Len(aoa[i + 1]) : Trim(aoa[i + 1][c]) # <<>>})
      hits1 == {i \in 0..(maxScan - 1) : both(i)}
      hits2 == {i \in 0..(maxScan - 1) : filled(i) >= HEADER_MIN_FILLED}
      least(S) == CHOOSE i \in S : \A j \in S : i <= j
  IN  IF hits1 # {} THEN least(hits1)
      ELSE IF hits2 # {} THEN least(hits2)
      ELSE 0

EMPTY_HEADER == <<"_", "_", "E", "M", "P", "T", "Y">>

\* XLSX.utils.sheet_to_json(ws, {defval: '', range: headerRow}): one object per
\* non-blank row below the header row, keyed by the header cells in column
\* order; an object is the sequence of its <<key, value>> entries
sheetToJson(aoa, headerRow) ==
  IF Len(aoa) <= headerRow THEN <<>>
  ELSE LET hdr == aoa[headerRow + 1]
           key(c) == IF hdr[c] = <<>> THEN EMPTY_HEADER ELSE hdr[c]
           cell(row, c) == IF c <= Len(row) THEN row[c] ELSE <<>>
           obj(row) == [c \in 1..Len(hdr) |-> <<key(c), cell(row, c)>>]
           blank(row) == \A c \in 1..Len(row) : row[c] = <<>>
           body == SubSeq(aoa, headerRow + 2, Len(aoa))
           kept == SelectSeq(body, LAMBDA row : ~blank(row))
       IN  [i \in 1..Len(kept) |-> obj(kept[i])]

\* the calendar window of the model: local day 0 is 10/03/2024
WINDOW_MONTH == <<"0", "3">>
WINDOW_YEAR == <<"2", "0", "2", "4">>

\* excelToDate (App.jsx 44-60) on a string cell: DD/MM/YYYY inside the
\* calendar window, else new Date(s), which is an Invalid Date for the other
\* strings the sheets of the model hold
excelToDate(z, value) ==
  LET s == Trim(value)
      isDMY == /\ Len(s) = 10
               /\ s[3] = "/" /\ s[6] = "/"
               /\ \A i \in {1, 2, 4, 5, 7, 8, 9, 10} : s[i] \in Digits
  IN  IF isDMY /\ SubSeq(s, 4, 5) = WINDOW_MONTH /\ SubSeq(s, 7, 10) = WINDOW_YEAR
      THEN <<DayStart(z, 10 * DigitVal(s[1]) + DigitVal(s[2]) - 10)>>
      ELSE <<>>

\* getBy inside mapRow (App.jsx 172-178): the value of the first column whose
\* normalised name satisfies the predicate; every predicate mapRow passes is
\* "k is one of `exact` or k includes one of `needles`"
getBy(rawObj, exact, needles) ==
  LET hit(k) == k \in exact \/ \E n \in needles : Includes(k, n)
      hits == {i \in 1..Len(rawObj) : hit(norm(rawObj[i][1]))}
  IN  IF hits = {} THEN <<>>
      ELSE rawObj[CHOOSE i \in hits : \A j \in hits : i <= j][2]

\* mapRow (App.jsx 169-259), the fields the model keeps
mapRow(z, rawObj) ==
  LET cpf == getBy(rawObj, {<<"c", "p", "f">>},
                 {<<"c", "p", "f">>,
                  <<"c", "p", "f", " ", "c", "n", "p", "j">>,
                  <<"c", "p", "f", "/", "c", "n", "p", "j">>,
                  <<"d", "o", "c", "u", "m", "e", "n", "t", "o">>})
      nome == getBy(rawObj, {<<"n", "o", "m", "e">>},
                 {<<"n", "o", "m", "e">>,
                  <<"c", "l", "i", "e", "n", "t", "e">>})
      vencRaw == getBy(rawObj, {<<"d", "a", "t", "a">>},
                 {<<"v", "e", "n", "c">>,
                  <<"v", "e", "n", "c", "i", "m", "e", "n", "t", "o">>,
                  <<"d", "a", "t", "a", " ", "v", "e", "n", "c">>,
                  <<"d", "t", " ", "v", "e", "n", "c">>,
                  <<"v", "c", "t", "o">>})
      telefone == getBy(rawObj, {},
                 {<<"t", "e", "l">>,
                  <<"f", "o", "n", "e">>,
                  <<"c", "e", "l">>,
                  <<"c", "o", "n", "t", "a", "t", "o">>,
                  <<"w", "h", "a", "t", "s">>})
      status == getBy(rawObj, {<<"s", "t", "a", "t", "u", "s">>},
                 {<<"s", "t", "a", "t", "u", "s">>,
                  <<"s", "i", "t", "u", "a", "c", "a", "o">>,
                  <<"s", "i", "t">>,
                  <<"p", "a", "g">>})
  IN  [CPF |-> Trim(cpf), Nome |-> Trim(nome),
       VencimentoISO |-> excelToDate(z, vencRaw),
       Telefone |-> Trim(telefone), Status |-> Trim(status)]

\* the rows extracted from a sheet when only rows with a name are kept
extractRows_nameOnly(z, aoa) ==
  LET json   == sheetToJson(aoa, findHeaderRow(aoa))
      all    == [i \in 1..Len(json) |-> mapRow(z, json[i])]
      mapped == SelectSeq(all, LAMBDA r : r.Nome # <<>>)
  IN  [i \in 1..Len(mapped) |->
        [_id |-> DecStr(i), CPF |-> mapped[i].CPF, Nome |-> mapped[i].Nome,
         VencimentoISO |-> mapped[i].VencimentoISO,
         Telefone |-> mapped[i].Telefone, Status |-> mapped[i].Status,
         PromessaISO |-> <<>>, _source |-> ""]]

\* loadSelectedSheet (App.jsx 550-561): the rows extracted from a sheet, with
\* their positional ids; PromessaISO is absent from them until merged
extractRows(z, aoa) ==
  LET json   == sheetToJson(aoa, findHeaderRow(aoa))
      all    == [i \in 1..Len(json) |-> mapRow(z, json[i])]
      mapped == SelectSeq(all, LAMBDA r :
                  r.CPF # <<>> \/ r.Nome # <<>> \/ r.Telefone # <<>>)
  IN  [i \in 1..Len(mapped) |->
        [_id |-> DecStr(i), CPF |-> mapped[i].CPF, Nome |-> mapped[i].Nome,
         VencimentoISO |-> mapped[i].VencimentoISO,
         Telefone |-> mapped[i].Telefone, Status |-> mapped[i].Status,
         PromessaISO |-> <<>>, _source |-> ""]]

(***************************************************************************)
(* What the user can type and choose                                       *)
(***************************************************************************)
ANA == <<"A", "n", "a">>
BIA == <<"B", "i", "a">>
CAIO == <<"C", "a", "i", "o">>
CPF_FMT == <<"1", "2", "3", ".", "4", "5", "6", ".", "7", "8", "9", "-", "0", "0">>
CPF_DIG == <<"1", "2", "3", "4", "5", "6", "7", "8", "9", "0", "0">>
TEL_A == <<"(", "1", "1", ")", " ", "9", "8", "8", "8", "8", "-", "7", "7", "7", "7">>
TEL_B == <<"1", "1", "9", "7", "7", "7", "7", "6", "6", "6", "6">>
TEL_SHORT == <<"9", "9", "9", "9", "-", "0", "0", "0", "0">>
CPF_SHORT == <<"1", "2", "3", "4", "5", "6", "7">>

\* contents of the new-client form when Salvar is clicked
ClientForms ==
  { [CPF |-> CPF_FMT, Nome |-> ANA, Telefone |-> TEL_A, VencDate |-> <<1>>],
    [CPF |-> <<>>, Nome |-> <<" ">> \o BIA, Telefone |-> TEL_B, VencDate |-> <<2>>],
    [CPF |-> CPF_FMT, Nome |-> <<" ">>, Telefone |-> TEL_A, VencDate |-> <<1>>],
    [CPF |-> <<>>, Nome |-> BIA, Telefone |-> TEL_B, VencDate |-> <<>>] }

\* days the user picks for a promise
PromiseDays == {3, 4}

\* contents of the promise form of the Promessas page when it is saved
PromiseForms ==
  { [CPF |-> CPF_FMT, Nome |-> ANA, Telefone |-> <<>>, promiseDate |-> <<d>>]
      : d \in PromiseDays }
    \cup { [CPF |-> <<>>, Nome |-> <<>>, Telefone |-> <<>>, promiseDate |-> <<3>>],
           [CPF |-> <<>>, Nome |-> BIA, Telefone |-> TEL_B, promiseDate |-> <<>>],
           [CPF |-> CPF_SHORT, Nome |-> BIA, Telefone |-> TEL_B, promiseDate |-> <<3>>] }

\* the sheets of the workbooks the user can pick
SheetPlan1 ==
  << << <<"R", "e", "l", "a", "t", "o", "r", "i", "o">>, <<>>, <<>>, <<>>, <<>> >>,
     << <<"C", "P", "F">>, <<"N", "o", "m", "e">>,
        <<"T", "e", "l", "e", "f", "o", "n", "e">>,
        <<"V", "e", "n", "c", "i", "m", "e", "n", "t", "o">>,
        <<"S", "t", "a", "t", "u", "s">> >>,
     << CPF_DIG, ANA, TEL_A,
        <<"1", "1", "/", "0", "3", "/", "2", "0", "2", "4">>, <<>> >>,
     << <<>>, <<>>, <<>>, <<>>, <<>> >>,
     << <<>>, CAIO, TEL_SHORT, <<"s", "e", "m">>, <<"P", "a", "g", "o">> >> >>

SheetPlan2 ==
  << << <<"C", "l", "i", "e", "n", "t", "e">>,
        <<"D", "o", "c", "u", "m", "e", "n", "t", "o">>,
        <<"C", "e", "l", "u", "l", "a", "r">> >>,
     << BIA, <<>>, TEL_B >> >>

SheetBase ==
  << << <<"x">>, <<"y">> >>,
     << <<"1">>, <<"2">> >> >>

\* a workbook: workbook.SheetNames and workbook.Sheets
Workbooks == {"W1", "W2"}
SheetNamesOf(w) == IF w = "W1" THEN <<"Plan1", "Plan2">> ELSE <<"Base">>
SheetOf(w, name) ==
  IF w = "W1" /\ name = "Plan1" THEN <<SheetPlan1>>
  ELSE IF w = "W1" /\ name = "Plan2" THEN <<SheetPlan2>>
  ELSE IF w = "W2" /\ name = "Base" THEN <<SheetBase>>
  ELSE <<>>

\* a file: its name and what XLSX.read makes of its bytes ("" when it throws)
Files ==
  { [name |-> "a.xlsx", workbook |-> "W1"],
    [name |-> "b.xlsx", workbook |-> "W2"],
    [name |-> "c.bin", workbook |-> ""] }

\* clients that saveManualClient stored in an earlier session, newest first:
\* one without CPF whose phone is too short for a key, one with a CPF
OldUid2 == <<"i", "d", ":", "o", "l", "d", "e", "r">>

OldClients ==
  << [_id |-> OldUid, CPF |-> <<>>, Nome |-> CAIO, Telefone |-> TEL_SHORT,
      VencimentoISO |-> <<MS_DAY>>, Status |-> <<>>, PromessaISO |-> <<>>],
     [_id |-> OldUid2, CPF |-> CPF_DIG, Nome |-> ANA, Telefone |-> TEL_A,
      VencimentoISO |-> <<0>>, Status |-> <<>>, PromessaISO |-> <<>>] >>

\* a promise that was stored in an earlier session, for the CPF above
OldPromises ==
  [x \in {CPF_PREFIX \o CPF_DIG} |-> [promiseISO |-> <<3 * MS_DAY>>]]

\* what localStorage can hold when the page is opened: <<manual clients,
\* promises>>
MissingDoc(nullValue) == [t |-> "missing", v |-> nullValue]
GarbageDoc(nullValue) == [t |-> "garbage", v |-> nullValue]

StartDocs ==
  { <<MissingDoc(NullArr), MissingDoc(NullMap)>>,
    <<GarbageDoc(NullArr), GarbageDoc(NullMap)>>,
    <<Stringify([k |-> "obj", a |-> <<>>]), MissingDoc(NullMap)>>,
    <<Stringify(JArr(OldClients)), Stringify([k |-> "num", m |-> <<>>])>>,
    <<Stringify(JArr(OldClients)), Stringify(JObj(OldPromises))>> }

(***************************************************************************)
(* The application                                                         *)
(***************************************************************************)
NoZone == [kind |-> "none", at |-> 0]
NoRec == [VencimentoISO |-> <<>>, Status |-> <<>>]
NoOut == [done |-> FALSE, pago |-> FALSE, hoje |-> FALSE, atr |-> FALSE, late |-> 0]

EmptyDraft == [key |-> <<>>, promiseDate |-> <<>>]

\* the first render throws when manualClients is truthy and has no map method
\* (manualRows, App.jsx 475-476)
RenderThrows(mc) == mc.k = "obj"

\* mount: the lazy initial states (App.jsx 379-387), the first render, then
\* the effects: persistence (App.jsx 389-395) and the init of rows (498-504)
Mounted(docM, docP) ==
  LET mc == safeParse(docM, NullArr, JArr(<<>>))
      pr == safeParse(docP, NullMap, JObj(<<>>))
  IN  /\ manualClients = mc
      /\ promises = pr
      /\ crashed = RenderThrows(mc)
      /\ rows = IF RenderThrows(mc) THEN <<>>
                ELSE mergePromisesIntoRows(manualRows(mc), pr)
      /\ lsManual = IF RenderThrows(mc) THEN docM ELSE Stringify(mc)
      /\ lsPromises = IF RenderThrows(mc) THEN docP ELSE Stringify(pr)
      /\ page = "dashboard"
      /\ wb = ""
      /\ sheetNames = <<>>
      /\ selectedSheet = ""
      /\ fileLabel = ""
      /\ q = <<>>
      /\ filter = "TODOS"
      /\ promiseDraft = EmptyDraft
      /\ openPromiseModal = FALSE
      /\ readers = <<>>
      /\ uidN = 0
      /\ alertMsg = ""
      /\ ops = 0

ClsIdle ==
  /\ zone = NoZone
  /\ today = 2 * MS_DAY + 12 * MS_HOUR
  /\ now = today
  /\ rec = NoRec
  /\ out = NoOut

Init ==
  /\ ClsIdle
  /\ \E docs \in StartDocs : Mounted(docs[1], docs[2])

\* a handler runs: the tree is mounted and the session goes on
Handler ==
  /\ ~crashed
  /\ ops < MaxOps
  /\ ops' = ops + 1

\* handleFile (App.jsx 507-512, 535): the label is set and the read starts;
\* onload closes over the manualRows and the promises of this render
HandleFile(f) ==
  /\ Handler
  /\ Len(readers) < MaxPending
  /\ fileLabel' = f.name
  /\ readers' = Append(readers,
                  [file |-> f, manualClients |-> manualClients, promises |-> promises])
  /\ alertMsg' = ""
  /\ UNCHANGED <<page, rows, wb, sheetNames, selectedSheet, q, filter,
                 promiseDraft, openPromiseModal, manualClients, promises,
                 lsManual, lsPromises, uidN, crashed>>
  /\ UNCHANGED clsVars

\* reader.onload leaving the working set as it is
ReaderOnload_keepsRows(i) ==
  /\ Handler
  /\ i \in 1..Len(readers)
  /\ LET rd == readers[i]
         w  == rd.file.workbook
     IN  IF w # ""
         THEN /\ wb' = w
              /\ sheetNames' = SheetNamesOf(w)
              /\ selectedSheet' = IF SheetNamesOf(w) # <<>> THEN SheetNamesOf(w)[1] ELSE ""
              /\ rows' = rows
              /\ q' = <<>>
              /\ filter' = "TODOS"
              /\ page' = "dashboard"
              /\ alertMsg' = ""
         ELSE /\ alertMsg' = "Erro ao ler o arquivo"
              /\ UNCHANGED <<wb, sheetNames, selectedSheet, rows, q, filter, page>>
  /\ readers' = [j \in 1..(Len(readers) - 1) |->
                  IF j < i THEN readers[j] ELSE readers[j + 1]]
  /\ UNCHANGED <<fileLabel, promiseDraft, openPromiseModal, manualClients,
                 promises, lsManual, lsPromises, uidN, crashed>>
  /\ UNCHANGED clsVars

\* reader.onload (App.jsx 513-534) of the i-th read in flight
ReaderOnload(i) ==
  /\ Handler
  /\ i \in 1..Len(readers)
  /\ LET rd == readers[i]
         w  == rd.file.workbook
     IN  IF w # ""
         THEN /\ wb' = w
              /\ sheetNames' = SheetNamesOf(w)
              /\ selectedSheet' = IF SheetNamesOf(w) # <<>> THEN SheetNamesOf(w)[1] ELSE ""
              /\ rows' = mergePromisesIntoRows(manualRows(rd.manualClients), rd.promises)
              /\ q' = <<>>
              /\ filter' = "TODOS"
              /\ page' = "dashboard"
              /\ alertMsg' = ""
         ELSE /\ alertMsg' = "Erro ao ler o arquivo"
              /\ UNCHANGED <<wb, sheetNames, selectedSheet, rows, q, filter, page>>
  /\ readers' = [j \in 1..(Len(readers) - 1) |->
                  IF j < i THEN readers[j] ELSE readers[j + 1]]
  /\ UNCHANGED <<fileLabel, promiseDraft, openPromiseModal, manualClients,
                 promises, lsManual, lsPromises, uidN, crashed>>
  /\ UNCHANGED clsVars

\* the sheet <select> (App.jsx 1060-1075)
SelectSheet(name) ==
  /\ Handler
  /\ \E j \in 1..Len(sheetNames) : sheetNames[j] = name
  /\ selectedSheet' = name
  /\ alertMsg' = ""
  /\ UNCHANGED <<page, rows, wb, sheetNames, fileLabel, q, filter, promiseDraft,
                 openPromiseModal, manualClients, promises, lsManual,
                 lsPromises, readers, uidN, crashed>>
  /\ UNCHANGED clsVars

\* loadSelectedSheet (App.jsx 538-573); its button is disabled while there is
\* no workbook or no selected sheet (App.jsx 1077-1081)
LoadSelectedSheet ==
  /\ Handler
  /\ wb # "" /\ selectedSheet # ""
  /\ IF wb = "" \/ selectedSheet = ""
     THEN /\ alertMsg' = "Selecione uma aba primeiro"
          /\ UNCHANGED <<rows, q, filter>>
     ELSE IF SheetOf(wb, selectedSheet) = <<>>
     THEN /\ alertMsg' = "Aba nao encontrada"
          /\ UNCHANGED <<rows, q, filter>>
     ELSE /\ rows' = composeRows(extractRows(zone, SheetOf(wb, selectedSheet)[1]),
                                 manualClients, promises)
          /\ q' = <<>>
          /\ filter' = "TODOS"
          /\ alertMsg' = ""
  /\ UNCHANGED <<page, wb, sheetNames, selectedSheet, fileLabel, promiseDraft,
                 openPromiseModal, manualClients, promises, lsManual,
                 lsPromises, readers, uidN, crashed>>
  /\ UNCHANGED clsVars

\* the persistence effects with the promise effect left out
Persisted_manualOnly(mc, pr) ==
  /\ lsManual' = Stringify(mc)
  /\ lsPromises' = lsPromises

\* the effects that write the stores back (App.jsx 389-395) run after every
\* render in which the store changed; mc and pr are the stores after the handler
Persisted(mc, pr) ==
  /\ lsManual' = Stringify(mc)
  /\ lsPromises' = Stringify(pr)

\* the updater saveManualClient gives to setRows with the new record at the end
prependManualRow_atEnd(itemRow, prev) == prev \o <<itemRow>>

\* the updater saveManualClient gives to setRows (App.jsx 610-612), before the
\* merge: [{ ...item, _source: 'manual' }, ...(prev || [])]
prependManualRow(itemRow, prev) == <<itemRow>> \o prev

\* the item of saveManualClient with the due date copied into PromessaISO
manualItem_withPromise(id, CPF, Nome, Telefone, vencISO) ==
  [_id |-> id, CPF |-> CPF, Nome |-> Nome, Telefone |-> Telefone,
   VencimentoISO |-> vencISO, Status |-> <<>>, PromessaISO |-> vencISO]

\* the item saveManualClient stores (App.jsx 595-607), the fields the model
\* keeps
manualItem(id, CPF, Nome, Telefone, vencISO) ==
  [_id |-> id, CPF |-> CPF, Nome |-> Nome, Telefone |-> Telefone,
   VencimentoISO |-> vencISO, Status |-> <<>>, PromessaISO |-> <<>>]

\* the updater saveManualClient gives to setManualClients with the new item
\* at the end
addManualClient_atEnd(item, prev) == JArr(ArrOf(prev) \o <<item>>)

\* the updater saveManualClient gives to setManualClients (App.jsx 609):
\* [item, ...(prev || [])]
addManualClient(item, prev) == JArr(<<item>> \o ArrOf(prev))

\* saveManualClient (App.jsx 584-617) up to its setRows, on the contents of
\* the new-client form
saveManualClientOn(form) ==
  /\ Handler
  /\ LET CPF      == Trim(form.CPF)
         Nome     == Trim(form.Nome)
         Telefone == Trim(form.Telefone)
         vencISO  == dateInputToISO(zone, form.VencDate)
         item     == manualItem(uid(uidN), CPF, Nome, Telefone, vencISO)
         itemRow  == [_id |-> item._id, CPF |-> item.CPF, Nome |-> item.Nome,
                      VencimentoISO |-> item.VencimentoISO,
                      Telefone |-> item.Telefone, Status |-> item.Status,
                      PromessaISO |-> item.PromessaISO, _source |-> "manual"]
     IN  IF Nome = <<>> \/ Telefone = <<>>
         THEN /\ alertMsg' = "Preencha pelo menos Nome e Telefone"
              /\ UNCHANGED <<manualClients, rows, uidN, lsManual, lsPromises>>
         ELSE IF vencISO = <<>>
         THEN /\ alertMsg' = "Escolha o Vencimento"
              /\ UNCHANGED <<manualClients, rows, uidN, lsManual, lsPromises>>
         ELSE /\ uidN < MaxUid
              /\ uidN' = uidN + 1
              /\ manualClients' = addManualClient(item, manualClients)
              /\ rows' = mergePromisesIntoRows(prependManualRow(itemRow, rows), promises)
              /\ Persisted(manualClients', promises)
              /\ alertMsg' = ""
  /\ UNCHANGED <<page, wb, sheetNames, selectedSheet, fileLabel, q, filter,
                 promiseDraft, openPromiseModal, promises, readers, crashed>>

\* saveManualClient (App.jsx 584-617) with the form as the user filled it
SaveManualClient(form) ==
  /\ saveManualClientOn(form)
  /\ UNCHANGED clsVars

\* deleteAllManualClients (App.jsx 619-624); ok is the answer to confirm()
DeleteAllManualClients(ok) ==
  /\ Handler
  /\ IF ok
     THEN /\ manualClients' = JArr(<<>>)
          /\ rows' = SelectSeq(rows, LAMBDA r : r._source # "manual")
          /\ Persisted(manualClients', promises)
     ELSE UNCHANGED <<manualClients, rows, lsManual, lsPromises>>
  /\ alertMsg' = ""
  /\ UNCHANGED <<page, wb, sheetNames, selectedSheet, fileLabel, q, filter,
                 promiseDraft, openPromiseModal, promises, readers, uidN, crashed>>
  /\ UNCHANGED clsVars

\* savePromiseFromForm (App.jsx 906-948).  upsertPromiseByKey queues the new
\* promises; the updater given to setRows calls the mergePromisesIntoRows of
\* the render in which the handler was created, which reads that render's
\* promises
SavePromiseFromForm(form) ==
  /\ Handler
  /\ LET Nome       == Trim(form.Nome)
         Telefone   == Trim(form.Telefone)
         CPF        == Trim(form.CPF)
         promiseISO == dateInputToISO(zone, form.promiseDate)
         needsUid   == CPF = <<>> /\ Telefone = <<>>
         key        == IF CPF # <<>> THEN CPF_PREFIX \o onlyDigits(CPF)
                       ELSE IF Telefone # <<>> THEN TEL_PREFIX \o onlyDigits(Telefone)
                       ELSE CUSTOM_PREFIX \o uid(uidN)
         payload    == [promiseISO |-> promiseISO]
     IN  IF Nome = <<>> /\ Telefone = <<>> /\ CPF = <<>>
         THEN /\ alertMsg' = "Preencha pelo menos Nome e Telefone (ou CPF)"
              /\ UNCHANGED <<promises, rows, uidN, lsManual, lsPromises>>
         ELSE IF promiseISO = <<>>
         THEN /\ alertMsg' = "Selecione a data da promessa"
              /\ UNCHANGED <<promises, rows, uidN, lsManual, lsPromises>>
         ELSE /\ needsUid => uidN < MaxUid
              /\ uidN' = IF needsUid THEN uidN + 1 ELSE uidN
              /\ promises' = upsertPromise(promises, key, <<payload>>)
              /\ rows' = mergePromisesIntoRows(rows, promises)
              /\ Persisted(manualClients, promises')
              /\ alertMsg' = ""
  /\ UNCHANGED <<page, wb, sheetNames, selectedSheet, fileLabel, q, filter,
                 promiseDraft, openPromiseModal, manualClients, readers, crashed>>
  /\ UNCHANGED clsVars

\* openPromiseForClient (App.jsx 951-967) on the i-th record of the working set
OpenPromiseForClient(i) ==
  /\ Handler
  /\ i \in 1..Len(rows)
  /\ LET r        == rows[i]
         k        == keyForClientLike(r)
         needsUid == k = <<>>
         key      == IF needsUid THEN CUSTOM_PREFIX \o uid(uidN) ELSE k
         has      == HasPromise(promises, key)
     IN  /\ needsUid => uidN < MaxUid
         /\ uidN' = IF needsUid THEN uidN + 1 ELSE uidN
         /\ promiseDraft' =
              [key |-> key,
               promiseDate |-> IF has /\ promises.m[key].promiseISO # <<>>
                               THEN isoToDateInput(zone, promises.m[key].promiseISO)
                               ELSE <<>>]
  /\ openPromiseModal' = TRUE
  /\ alertMsg' = ""
  /\ UNCHANGED <<page, rows, wb, sheetNames, selectedSheet, fileLabel, q, filter,
                 manualClients, promises, lsManual, lsPromises, readers, crashed>>
  /\ UNCHANGED clsVars

\* the date input of the promise modal (App.jsx 1548-1558)
EditPromiseDraftDate(d) ==
  /\ Handler
  /\ openPromiseModal
  /\ promiseDraft' = [promiseDraft EXCEPT !.promiseDate = <<d>>]
  /\ alertMsg' = ""
  /\ UNCHANGED <<page, rows, wb, sheetNames, selectedSheet, fileLabel, q, filter,
                 openPromiseModal, manualClients, promises, lsManual, lsPromises,
                 readers, uidN, crashed>>
  /\ UNCHANGED clsVars

\* savePromiseDraft (App.jsx 969-991), the Salvar promessa button of the modal
SavePromiseDraft ==
  /\ Handler
  /\ openPromiseModal
  /\ LET promiseISO == dateInputToISO(zone, promiseDraft.promiseDate)
         payload    == [promiseISO |-> promiseISO]
     IN  IF promiseDraft.key = <<>>
         THEN /\ alertMsg' = ""
              /\ UNCHANGED <<promises, rows, openPromiseModal, lsManual, lsPromises>>
         ELSE IF promiseISO = <<>>
         THEN /\ alertMsg' = "Selecione a data da promessa"
              /\ UNCHANGED <<promises, rows, openPromiseModal, lsManual, lsPromises>>
         ELSE /\ promises' = upsertPromise(promises, promiseDraft.key, <<payload>>)
              /\ rows' = mergePromisesIntoRows(rows, promises)
              /\ openPromiseModal' = FALSE
              /\ Persisted(manualClients, promises')
              /\ alertMsg' = ""
  /\ UNCHANGED <<page, wb, sheetNames, selectedSheet, fileLabel, q, filter,
                 promiseDraft, manualClients, readers, uidN, crashed>>
  /\ UNCHANGED clsVars

\* the keys the Promessas page lists (promiseList, App.jsx 852-866)
promiseKeys(P) ==
  IF P.k = "obj" THEN {x \in DOMAIN P.m : P.m[x].promiseISO # <<>>} ELSE {}

\* removePromiseByKey (App.jsx 993-998) from a line of the Promessas page; ok is
\* the answer to confirm()
RemovePromiseByKey(key, ok) ==
  /\ Handler
  /\ key \in promiseKeys(promises)
  /\ IF ok
     THEN /\ promises' = upsertPromise(promises, key, <<>>)
          /\ rows' = mergePromisesIntoRows(rows, promises)
          /\ Persisted(manualClients, promises')
     ELSE UNCHANGED <<promises, rows, lsManual, lsPromises>>
  /\ alertMsg' = ""
  /\ UNCHANGED <<page, wb, sheetNames, selectedSheet, fileLabel, q, filter,
                 promiseDraft, openPromiseModal, manualClients, readers, uidN,
                 crashed>>
  /\ UNCHANGED clsVars

\* the filter <select> and the shortcut buttons (App.jsx 1217-1239)
SetFilter(f) ==
  /\ Handler
  /\ filter' = f
  /\ alertMsg' = ""
  /\ UNCHANGED <<page, rows, wb, sheetNames, selectedSheet, fileLabel, q,
                 promiseDraft, openPromiseModal, manualClients, promises,
                 lsManual, lsPromises, readers, uidN, crashed>>
  /\ UNCHANGED clsVars

\* the search box (App.jsx 1210-1213)
SetQ(text) ==
  /\ Handler
  /\ q' = text
  /\ alertMsg' = ""
  /\ UNCHANGED <<page, rows, wb, sheetNames, selectedSheet, fileLabel, filter,
                 promiseDraft, openPromiseModal, manualClients, promises,
                 lsManual, lsPromises, readers, uidN, crashed>>
  /\ UNCHANGED clsVars

\* the sidebar buttons (App.jsx 1015-1035)
SetPage(pg) ==
  /\ Handler
  /\ page' = pg
  /\ alertMsg' = ""
  /\ UNCHANGED <<rows, wb, sheetNames, selectedSheet, fileLabel, q, filter,
                 promiseDraft, openPromiseModal, manualClients, promises,
                 lsManual, lsPromises, readers, uidN, crashed>>
  /\ UNCHANGED clsVars

\* formatBR (App.jsx 70-72): the local calendar day of a date
formatBR(z, t) == <<DayOf(z, t)>>

\* exportar (App.jsx 705-727): out is the table handed to downloadCSV or
\* downloadXLSX, the fields the model keeps
Exportar(tipo) ==
  /\ Handler
  /\ IF rows = <<>> THEN UNCHANGED out
     ELSE out' = [done |-> TRUE, tipo |-> tipo,
                  table |-> [i \in 1..Len(rows) |->
                    [CPF |-> rows[i].CPF, Nome |-> rows[i].Nome,
                     Vencimento |-> IF vencDate(rows[i]) # <<>>
                                    THEN formatBR(zone, vencDate(rows[i])[1])
                                    ELSE <<>>,
                     Telefone |-> rows[i].Telefone, Status |-> rows[i].Status,
                     Promessa |-> IF rows[i].PromessaISO # <<>>
                                  THEN formatBR(zone, rows[i].PromessaISO[1])
                                  ELSE <<>>,
                     Origem |-> rows[i]._source]]]
  /\ alertMsg' = ""
  /\ UNCHANGED <<page, rows, wb, sheetNames, selectedSheet, fileLabel, q, filter,
                 promiseDraft, openPromiseModal, manualClients, promises,
                 lsManual, lsPromises, readers, uidN, crashed>>
  /\ UNCHANGED <<zone, now, today, rec>>

Filters == {"TODOS", "ATRASADO"}
Queries == {<<>>, <<"a", "n", "a">>}
Pages == {"dashboard", "clientes", "promessas"}

Next ==
  \/ \E f \in Files : HandleFile(f)
  \/ \E i \in 1..MaxPending : ReaderOnload(i)
  \/ \E name \in {"Plan1", "Plan2", "Base"} : SelectSheet(name)
  \/ LoadSelectedSheet
  \/ \E form \in ClientForms : SaveManualClient(form)
  \/ \E ok \in BOOLEAN : DeleteAllManualClients(ok)
  \/ \E form \in PromiseForms : SavePromiseFromForm(form)
  \/ \E i \in 1..(MaxUid + 4) : OpenPromiseForClient(i)
  \/ \E d \in PromiseDays : EditPromiseDraftDate(d)
  \/ SavePromiseDraft
  \/ \E key \in promiseKeys(promises), ok \in BOOLEAN : RemovePromiseByKey(key, ok)

Spec == Init /\ [][Next]_vars

\* the same session with the controls of the Clientes page and the sidebar,
\* opened on what an earlier session stored
InitNav ==
  /\ ClsIdle
  /\ Mounted(Stringify(JArr(OldClients)), Stringify(JObj(OldPromises)))

NextNav ==
  \/ Next
  \/ \E f \in Filters : SetFilter(f)
  \/ \E text \in Queries : SetQ(text)
  \/ \E pg \in Pages : SetPage(pg)
  \/ \E tipo \in {"csv", "xlsx"} : Exportar(tipo)

SpecNav == InitNav /\ [][NextNav]_vars

(***************************************************************************)
(* The classifier as a state machine: the page mounts at some instant in   *)
(* some zone, the clock runs on, and a record is classified.               *)
(***************************************************************************)
StatusValues ==
  { <<>>,
    <<"P", "a", "g", "o">>,
    <<"P", "e", "n", "d", "e", "n", "t", "e">>,
    <<"N", "a~", "o", " ", "p", "a", "g", "o">> }

ClsRecords(z) ==
  [VencimentoISO : {<<>>} \cup {<<t>> : t \in Instants(z)},
   Status        : StatusValues]

ClsInit ==
  /\ zone \in Zones
  /\ today \in Instants(zone)
  /\ now = today
  /\ rec \in ClsRecords(zone)
  /\ out = NoOut
  /\ Mounted(MissingDoc(NullArr), MissingDoc(NullMap))

\* the clock advances; `today` is memoised with no dependency and stays
Tick ==
  /\ now < today + MaxTicks * 12 * MS_HOUR
  /\ now' = now + 12 * MS_HOUR
  /\ UNCHANGED <<zone, today, rec, out>>
  /\ UNCHANGED appVars

\* the record is classified (badgeForVenc, byFilter, copyBulkFromCurrentView)
Classify ==
  /\ out' = [done |-> TRUE,
             pago |-> isPago(rec),
             hoje |-> venceHoje(zone, today, rec),
             atr  |-> atrasado(zone, today, rec),
             late |-> daysLate(zone, today, rec)]
  /\ UNCHANGED <<zone, now, today, rec>>
  /\ UNCHANGED appVars

ClsNext ==
  \/ Tick
  \/ Classify

SpecClassify == ClsInit /\ [][ClsNext]_vars

(***************************************************************************)
(* The filtered view and the bulk selector (App.jsx 627-702) as a state    *)
(* machine: the working set is what a loaded sheet left, the user filters, *)
(* searches and copies phones in bulk.                                     *)
(***************************************************************************)

\* byFilter inside computed (App.jsx 631-638)
byFilter(z, td, f, r) ==
  CASE f = "TODOS" -> TRUE
    [] f = "PAGO" -> isPago(r)
    [] f = "PENDENTE" -> ~isPago(r)
    [] f = "VENCE_HOJE" -> venceHoje(z, td, r)
    [] f = "ATRASADO" -> atrasado(z, td, r)
    [] OTHER -> TRUE

\* bySearch inside computed (App.jsx 628, 640-647)
bySearch(text, r) ==
  LET query == [i \in 1..Len(Trim(text)) |-> ToLower(Trim(text)[i])]
      low(x) == [i \in 1..Len(x) |-> ToLower(x[i])]
  IN  \/ query = <<>>
      \/ Includes(low(r.CPF), query)
      \/ Includes(low(r.Nome), query)
      \/ Includes(low(r.Telefone), query)

\* computed.filtered (App.jsx 649)
filtered(z, td, rs, f, text) ==
  SelectSeq(rs, LAMBDA r : byFilter(z, td, f, r) /\ bySearch(text, r))

BULK_MIN_DIGITS == 10
BR_PREFIX == <<"5", "5">>

\* Array.prototype.join
RECURSIVE Join(_, _)
Join(list, sep) ==
  IF list = <<>> THEN <<>>
  ELSE IF Len(list) = 1 THEN list[1]
  ELSE list[1] \o sep \o Join(Tail(list), sep)

\* the last map of bulkPhones with the prefix always prepended
brPhone_always(d) == BR_PREFIX \o d

\* the last map of bulkPhones (App.jsx 667)
brPhone(d) == IF StartsWith(d, BR_PREFIX) THEN d ELSE BR_PREFIX \o d

\* bulkPhones (App.jsx 663-669)
bulkPhones(list) ==
  LET digits == [i \in 1..Len(list) |-> onlyDigits(list[i].Telefone)]
      kept   == SelectSeq(digits, LAMBDA d : d # <<>> /\ Len(d) >= BULK_MIN_DIGITS)
      phones == [i \in 1..Len(kept) |-> brPhone(kept[i])]
  IN  Join(phones, <<"\n">>)

BulkKinds == {"HOJE", "QUEBRAS", "ATRASADO_1_5"}

\* the predicates of copyBulkFromCurrentView (App.jsx 684, 689-691, 696-698)
bulkMatches(z, td, kind, r) ==
  CASE kind = "HOJE" -> venceHoje(z, td, r) /\ ~isPago(r)
    [] kind = "QUEBRAS" ->
         atrasado(z, td, r) /\ daysLate(z, td, r) > 5 /\ ~isPago(r)
    [] kind = "ATRASADO_1_5" ->
         /\ atrasado(z, td, r)
         /\ daysLate(z, td, r) >= 1 /\ daysLate(z, td, r) <= 5
         /\ ~isPago(r)
    [] OTHER -> FALSE

\* copyBulkFromCurrentView (App.jsx 680-702): out is what went to the
\* clipboard, if anything, and the number the toast shows
CopyBulkFromCurrentView(kind) ==
  /\ Handler
  /\ LET view == filtered(zone, today, rows, filter, q)
         list == SelectSeq(view, LAMBDA r : bulkMatches(zone, today, kind, r))
     IN  out' = IF view = <<>> \/ list = <<>>
                THEN [done |-> TRUE, kind |-> kind, copied |-> FALSE,
                      text |-> <<>>, count |-> 0]
                ELSE [done |-> TRUE, kind |-> kind, copied |-> TRUE,
                      text |-> bulkPhones(list), count |-> Len(list)]
  /\ alertMsg' = ""
  /\ UNCHANGED <<page, rows, wb, sheetNames, selectedSheet, fileLabel, q, filter,
                 promiseDraft, openPromiseModal, manualClients, promises,
                 lsManual, lsPromises, readers, uidN, crashed>>
  /\ UNCHANGED <<zone, now, today, rec>>

TEL_55 == <<"5", "5", "1", "1", "9", "7", "7", "7", "7", "6", "6", "6", "6">>
PAGO_CELL == <<"P", "a", "g", "o">>

\* an imported record as loadSelectedSheet leaves it in the working set
BulkRow(nome, tel, due, status) ==
  [_id |-> <<"1">>, CPF |-> <<>>, Nome |-> nome, VencimentoISO |-> due,
   Telefone |-> tel, Status |-> status, PromessaISO |-> <<>>, _source |-> "excel"]

\* the records of the views: due today, 1, 5 and 6 days before today, or
\* without due date; paid or not; a phone with or without the country prefix
\* or too short
BulkRows(z) ==
  { BulkRow(ANA, TEL_A, <<DayStart(z, 0)>>, <<>>),
    BulkRow(BIA, TEL_55, <<DayStart(z, 1)>>, <<>>),
    BulkRow(ANA, TEL_SHORT, <<DayStart(z, MaxDay - 1)>>, <<>>),
    BulkRow(BIA, TEL_A, <<DayStart(z, MaxDay)>>, <<>>),
    BulkRow(ANA, TEL_A, <<DayStart(z, 0)>>, PAGO_CELL),
    BulkRow(BIA, TEL_55, <<DayStart(z, MaxDay)>>, PAGO_CELL),
    BulkRow(ANA, TEL_A, <<>>, <<>>),
    BulkRow(BIA, TEL_55, <<DayStart(z, 0)>>, <<>>),
    BulkRow(CAIO, TEL_B, <<DayStart(z, MaxDay - 1)>>, <<>>) }

\* the working sets: up to two records, with their positional ids
BulkViews(z) ==
  {<<>>} \cup {<<a>> : a \in BulkRows(z)}
    \cup {<<a, [b EXCEPT !._id = <<"2">>]>> : a \in BulkRows(z), b \in BulkRows(z)}

\* no daylight saving, or the clocks going forward on the day before today
BulkZones == {[kind |-> "none", at |-> 0], [kind |-> "forward", at |-> MaxDay - 1]}

BulkFilters == {"TODOS", "PAGO", "PENDENTE", "VENCE_HOJE", "ATRASADO"}

\* the page as it is after a sheet of a workbook was loaded on day MaxDay,
\* with nothing stored
BulkInit ==
  /\ zone \in BulkZones
  /\ today = DayStart(zone, MaxDay) + 12 * MS_HOUR
  /\ now = today
  /\ rec = NoRec
  /\ out = NoOut
  /\ rows \in BulkViews(zone)
  /\ manualClients = safeParse(MissingDoc(NullArr), NullArr, JArr(<<>>))
  /\ promises = safeParse(MissingDoc(NullMap), NullMap, JObj(<<>>))
  /\ lsManual = Stringify(manualClients)
  /\ lsPromises = Stringify(promises)
  /\ crashed = FALSE
  /\ page = "clientes"
  /\ wb = "W0"
  /\ sheetNames = <<"Dados">>
  /\ selectedSheet = "Dados"
  /\ fileLabel = "dados.xlsx"
  /\ q = <<>>
  /\ filter = "TODOS"
  /\ promiseDraft = EmptyDraft
  /\ openPromiseModal = FALSE
  /\ readers = <<>>
  /\ uidN = 0
  /\ alertMsg = ""
  /\ ops = 0

BulkNext ==
  \/ \E f \in BulkFilters : SetFilter(f)
  \/ \E text \in Queries : SetQ(text)
  \/ \E kind \in BulkKinds : CopyBulkFromCurrentView(kind)

SpecBulk == BulkInit /\ [][BulkNext]_vars

(***************************************************************************)
(* The identity resolver as a state machine: two client-like records are   *)
(* given and their keys are resolved, as mergePromisesIntoRows and         *)
(* openPromiseForClient do for the records of the working set.             *)
(***************************************************************************)
KeyCpfs ==
  { <<>>, <<"a", "b", "c">>, <<"1", "2", "3", "4", "5", "6", "7">>, <<"1", "2", "3", "4", "5", "6", "7", "8">>, <<"1", "2", "3", ".", "4", "5", "6", ".", "7", "8">>,
    CPF_FMT, CPF_DIG }

KeyPhones ==
  { <<>>, TEL_SHORT, <<"1", "1", "9", "8", "8", "8", "8", "7", "7">>, <<"(", "1", "1", ")", " ", "8", "8", "8", "8", "-", "7", "7", "7", "7">>,
    <<"1", "1", "8", "8", "8", "8", "7", "7", "7", "7">>, TEL_A, TEL_B }

KeyRecords == [CPF : KeyCpfs, Telefone : KeyPhones]

KeyInit ==
  /\ zone = NoZone
  /\ today = 2 * MS_DAY + 12 * MS_HOUR
  /\ now = today
  /\ rec \in KeyRecords \X KeyRecords
  /\ out = NoOut
  /\ Mounted(MissingDoc(NullArr), MissingDoc(NullMap))

\* const k = keyForClientLike(r) (App.jsx 467, 952) for both records
ResolveKeys ==
  /\ ~out.done
  /\ out' = [done |-> TRUE,
             keys |-> <<keyForClientLike(rec[1]), keyForClientLike(rec[2])>>]
  /\ UNCHANGED <<zone, now, today, rec>>
  /\ UNCHANGED appVars

KeyNext == ResolveKeys

SpecKey == KeyInit /\ [][KeyNext]_vars

(***************************************************************************)
(* The Header Heuristics Engine and the Row Normalizer as a state machine: *)
(* a sheet is given and loadSelectedSheet reads it (App.jsx 549-561).      *)
(***************************************************************************)
BlankRow == << <<>>, <<>>, <<>>, <<>> >>
BannerRow == << <<"R", "e", "l", "a", "t", "o", "r", "i", "o">>, <<>>, <<>>, <<>> >>
NotesRow == << <<"a">>, <<"b">>, <<"c">>, <<>> >>

\* leading rows of a sheet: none, or so many that the header row is near the
\* end of the scan window or beyond it
LeadCounts == {0, 1, HEADER_SCAN - 2, HEADER_SCAN - 1, HEADER_SCAN, HEADER_SCAN + 1}

Leads ==
  {[i \in 1..k |-> row] : k \in LeadCounts, row \in {BlankRow, BannerRow, NotesRow}}

HeaderRows ==
  { << <<"C", "P", "F">>, <<"N", "o", "m", "e">>, <<"T", "e", "l", "e", "f", "o", "n", "e">>, <<"V", "e", "n", "c", "i", "m", "e", "n", "t", "o">> >>,
    << <<"C", "l", "i", "e", "n", "t", "e">>, <<"D", "o", "c", "u", "m", "e", "n", "t", "o">>, <<"C", "e", "l", "u", "l", "a", "r">>, <<"D", "a", "t", "a">> >>,
    << <<"N", "o", "m", "e">>, <<"T", "e", "l", "e", "f", "o", "n", "e">>, <<>>, <<>> >>,
    << <<"N", "o", "m", "e">>, <<"T", "e", "l", "e", "f", "o", "n", "e">>, <<"V", "e", "n", "c", "i", "m", "e", "n", "t", "o">>, <<>> >> }

DATE_CELL == <<"1", "1", "/", "0", "3", "/", "2", "0", "2", "4">>

\* data rows: complete; a name with an unparseable date; a date alone;
\* white space alone; blank; a phone alone
DataRows ==
  { << CPF_DIG, ANA, TEL_A, DATE_CELL >>,
    << <<>>, <<" ">> \o CAIO \o <<" ">>, TEL_SHORT, <<"s", "e", "m">> >>,
    << <<>>, <<>>, <<>>, DATE_CELL >>,
    << <<" ">>, <<" ", " ">>, <<>>, <<>> >>,
    BlankRow,
    << <<>>, <<>>, TEL_B, <<>> >> }

Bodies ==
  {<<>>} \cup {<<a>> : a \in DataRows} \cup {<<a, b>> : a \in DataRows, b \in DataRows}

Sheets == {lead \o <<hdr>> \o body : lead \in Leads, hdr \in HeaderRows, body \in Bodies}

SheetInit ==
  /\ zone = NoZone
  /\ today = 2 * MS_DAY + 12 * MS_HOUR
  /\ now = today
  /\ rec \in Sheets
  /\ out = NoOut
  /\ Mounted(MissingDoc(NullArr), MissingDoc(NullMap))

\* loadSelectedSheet up to withId (App.jsx 549-561) on the sheet
ReadSheet ==
  /\ ~out.done
  /\ out' = [done |-> TRUE,
             headerRow |-> findHeaderRow(rec),
             mapped |-> extractRows(zone, rec)]
  /\ UNCHANGED <<zone, now, today, rec>>
  /\ UNCHANGED appVars

SheetNext == ReadSheet

SpecSheet == SheetInit /\ [][SheetNext]_vars

(***************************************************************************)
(* The messaging link as a state machine: a record with some phone is in   *)
(* the table, its WhatsApp menu item is clicked, or the record is the view *)
(* of a bulk copy.                                                         *)
(***************************************************************************)
WHATS_MIN_DIGITS == 12
WA_BASE == <<"h", "t", "t", "p", "s", ":", "/", "/", "w", "a", ".", "m", "e", "/">>
WA_TEXT == <<"?", "t", "e", "x", "t", "=">>

\* encodeURIComponent on the characters the messages of the model use
encodeURIComponent(text) ==
  IF text = <<>> THEN <<>>
  ELSE LET enc(c) == CASE c = " " -> <<"%", "2", "0">>
                       [] c = "," -> <<"%", "2", "C">>
                       [] c = "?" -> <<"%", "3", "F">>
                       [] OTHER -> <<c>>
           parts == [i \in 1..Len(text) |-> enc(text[i])]
       IN  Join(parts, <<>>)

\* buildWhatsLinkBR accepting from 10 digits on
buildWhatsLinkBR_from10(telefoneComDDD, message) ==
  LET d    == onlyDigits(telefoneComDDD)
      e164 == IF StartsWith(d, BR_PREFIX) THEN d ELSE BR_PREFIX \o d
  IN  IF Len(e164) < BULK_MIN_DIGITS THEN <<>>
      ELSE WA_BASE \o e164 \o WA_TEXT \o encodeURIComponent(message)

\* buildWhatsLinkBR (App.jsx 302-307); '' is the empty sequence
buildWhatsLinkBR(telefoneComDDD, message) ==
  LET d    == onlyDigits(telefoneComDDD)
      e164 == IF StartsWith(d, BR_PREFIX) THEN d ELSE BR_PREFIX \o d
  IN  IF Len(e164) < WHATS_MIN_DIGITS THEN <<>>
      ELSE WA_BASE \o e164 \o WA_TEXT \o encodeURIComponent(message)

\* the phones of the records: the first n digits of a number, with or
\* without the country prefix in front, typed plainly or with punctuation
PHONE_DIGITS == <<"1", "1", "9", "8", "8", "8", "8", "7", "7", "7", "7", "0", "0">>
PhoneLeads == {<<>>, BR_PREFIX, <<"+">> \o BR_PREFIX \o <<" ">>}
WhatsPhones ==
  {lead \o open \o SubSeq(PHONE_DIGITS, 1, n) \o close :
     lead \in PhoneLeads, n \in 0..Len(PHONE_DIGITS),
     open \in {<<>>, <<"(">>}, close \in {<<>>, <<"-">>}}

WhatsMessages == {<<>>, <<"O", "i", ",", " ", "A", "n", "a", "?">>}

WhatsInit ==
  /\ zone = NoZone
  /\ today = 2 * MS_DAY + 12 * MS_HOUR
  /\ now = today
  /\ rec \in [Telefone : WhatsPhones, msg : WhatsMessages]
  /\ out = NoOut
  /\ Mounted(MissingDoc(NullArr), MissingDoc(NullMap))

\* openWhats (App.jsx 843-847) called by the WhatsApp item of the record's
\* menu (App.jsx 1357-1360): `opened` is what window.open was given
OpenWhats ==
  /\ ~out.done
  /\ LET wa == buildWhatsLinkBR(rec.Telefone, rec.msg)
     IN  IF wa = <<>>
         THEN /\ alertMsg' = "Telefone invalido para Whats"
              /\ out' = [done |-> TRUE, op |-> "whats", wa |-> wa, opened |-> <<>>]
         ELSE /\ alertMsg' = ""
              /\ out' = [done |-> TRUE, op |-> "whats", wa |-> wa, opened |-> <<wa>>]
  /\ UNCHANGED <<zone, now, today, rec>>
  /\ UNCHANGED <<page, rows, wb, sheetNames, selectedSheet, fileLabel, q, filter,
                 promiseDraft, openPromiseModal, manualClients, promises,
                 lsManual, lsPromises, readers, uidN, crashed, ops>>

\* bulkPhones (App.jsx 663-669) on a list that holds the record
BulkPhonesOfRecord ==
  /\ ~out.done
  /\ out' = [done |-> TRUE, op |-> "bulk", text |-> bulkPhones(<<rec>>)]
  /\ UNCHANGED <<zone, now, today, rec>>
  /\ UNCHANGED appVars

WhatsNext == OpenWhats \/ BulkPhonesOfRecord

SpecWhats == WhatsInit /\ [][WhatsNext]_vars

(***************************************************************************)
(* The delimited export as a state machine: a table of one row with two    *)
(* fields is handed to downloadCSV.                                        *)
(***************************************************************************)
\* esc of downloadCSV wrapping in quotes without doubling the quotes inside
esc_noDoubling(val) ==
  IF \E i \in 1..Len(val) : val[i] \in {"\"", ",", "\n"}
  THEN <<"\"">> \o val \o <<"\"">>
  ELSE val

\* esc of downloadCSV (App.jsx 274-279) on a string
esc(val) ==
  IF \E i \in 1..Len(val) : val[i] \in {"\"", ",", "\n"}
  THEN <<"\"">>
         \o Join([i \in 1..Len(val) |->
                   IF val[i] = "\"" THEN <<"\"", "\"">> ELSE <<val[i]>>], <<>>)
         \o <<"\"">>
  ELSE val

\* downloadCSV (App.jsx 270-287): the text of the blob; a row is the sequence
\* of its <<key, value>> entries; nothing is downloaded for an empty table
downloadCSV(table) ==
  IF table = <<>> THEN <<>>
  ELSE LET headers == [c \in 1..Len(table[1]) |-> table[1][c][1]]
           line(r) == Join([c \in 1..Len(headers) |-> esc(table[r][c][2])], <<",">>)
       IN  << Join(<<Join(headers, <<",">>)>> \o [r \in 1..Len(table) |-> line(r)],
                   <<"\n">>) >>

CsvAlphabet == {"a", ",", "\"", "\n"}
MaxField == 3

\* the strings over the alphabet up to MaxField characters
CsvFields == UNION {[1..n -> CsvAlphabet] : n \in 0..MaxField}

CsvSecondFields == {<<>>, <<"b">>, <<",">>, <<"\"", "b", "\"">>}

CsvTables ==
  {<<>>} \cup
  {<< << <<<<"N", "o", "m", "e">>, f>>, <<<<"O", "b", "s">>, g>> >> >> :
     f \in CsvFields, g \in CsvSecondFields}

CsvInit ==
  /\ zone = NoZone
  /\ today = 2 * MS_DAY + 12 * MS_HOUR
  /\ now = today
  /\ rec \in CsvTables
  /\ out = NoOut
  /\ Mounted(MissingDoc(NullArr), MissingDoc(NullMap))

\* downloadCSV (App.jsx 270-287): blob is what downloadBlob was given
DownloadCSV ==
  /\ ~out.done
  /\ out' = [done |-> TRUE, blob |-> downloadCSV(rec)]
  /\ UNCHANGED <<zone, now, today, rec>>
  /\ UNCHANGED appVars

CsvNext == DownloadCSV

SpecCsv == CsvInit /\ [][CsvNext]_vars

(***************************************************************************)
(* The new-client modal as a state machine: rec is cForm, the contents of  *)
(* the form (App.jsx 576-582); the user types into it and clicks Salvar.   *)
(***************************************************************************)
EmptyClientForm == [CPF |-> <<>>, Nome |-> <<>>, Telefone |-> <<>>, VencDate |-> <<>>]

\* what the user may have typed: the forms of the session, a blank phone, and
\* a name without due date
TypedClientForms ==
  ClientForms \cup
  { [CPF |-> CPF_FMT, Nome |-> ANA, Telefone |-> <<" ", " ">>, VencDate |-> <<1>>],
    [CPF |-> <<>>, Nome |-> CAIO, Telefone |-> TEL_SHORT, VencDate |-> <<3>>] }

ClientInit ==
  /\ zone = NoZone
  /\ today = 2 * MS_DAY + 12 * MS_HOUR
  /\ now = today
  /\ rec = EmptyClientForm
  /\ out = NoOut
  /\ \E docs \in StartDocs : Mounted(docs[1], docs[2])

\* the inputs of the new-client modal (App.jsx 1420-1458): setCForm
EditClientForm(form) ==
  /\ Handler
  /\ rec' = form
  /\ alertMsg' = ""
  /\ UNCHANGED <<page, rows, wb, sheetNames, selectedSheet, fileLabel, q, filter,
                 promiseDraft, openPromiseModal, manualClients, promises,
                 lsManual, lsPromises, readers, uidN, crashed>>
  /\ UNCHANGED <<zone, now, today, out>>

\* saveManualClient (App.jsx 584-617) on cForm; the form is emptied at
\* App.jsx 613, which the two early returns do not reach
SubmitClientForm ==
  /\ saveManualClientOn(rec)
  /\ rec' = IF \/ Trim(rec.Nome) = <<>> \/ Trim(rec.Telefone) = <<>>
               \/ dateInputToISO(zone, rec.VencDate) = <<>>
            THEN rec
            ELSE EmptyClientForm
  /\ UNCHANGED <<zone, now, today, out>>

ClientNext ==
  \/ \E form \in TypedClientForms : EditClientForm(form)
  \/ SubmitClientForm
  \/ \E ok \in BOOLEAN : DeleteAllManualClients(ok)
  \/ \E f \in Files : HandleFile(f)
  \/ \E i \in 1..MaxPending : ReaderOnload(i)
  \/ LoadSelectedSheet

SpecClient == ClientInit /\ [][ClientNext]_vars

(***************************************************************************)
(* Properties of the Reconciliation Engine and of the stores               *)
(***************************************************************************)
IsManual(r) == r._source = "manual"
IsImported(r) == r._source = "excel"
ManualPart(rs) == SelectSeq(rs, IsManual)
ImportedPart(rs) == SelectSeq(rs, IsImported)

\* the position of a client id in the ManualClientStore, 0 when it is not there
StorePos(mc, id) ==
  LET hits == {p \in 1..Len(ArrOf(mc)) : ArrOf(mc)[p]._id = id}
  IN  IF hits = {} THEN 0 ELSE CHOOSE p \in hits : TRUE

\* the keys whose stored promise this step added or overwrote with another one
SavedKeys ==
  IF promises'.k # "obj" THEN {}
  ELSE {x \in DOMAIN promises'.m :
          ~HasPromise(promises, x) \/ promises.m[x] # promises'.m[x]}

\* C1 (as claimed): in the state resulting from a promise add or update,
\* every record of the working set whose identity key is the saved key
\* carries the newly saved promise date as its overlay.
C1_SaveRecomputesOverlay ==
  [][\A x \in SavedKeys :
       \A i \in 1..Len(rows') :
         keyForClientLike(rows'[i]) = x =>
           rows'[i].PromessaISO = promises'.m[x].promiseISO]_vars

\* C2 (as claimed): in every reachable state a record of the working set
\* whose identity key has no stored promise carries no promise date.
C2_NoPromiseNoOverlay ==
  \A i \in 1..Len(rows) :
    ~HasPromise(promises, keyForClientLike(rows[i])) =>
      rows[i].PromessaISO = <<>>

\* C3 (as claimed): when the completion callback of a file read has run, the
\* manual records of the working set are the records of the current
\* ManualClientStore with the overlays of the current Promise Store, whatever
\* ran between the start of the read and the callback.
C3_ReadHasNoOrderingInteraction ==
  [][(Len(readers') < Len(readers) /\ alertMsg' = "") =>
       ManualPart(rows') =
         mergePromisesIntoRows(manualRows(manualClients'), promises')]_vars

\* C4: in every reachable state the working set lists its manual records
\* before its imported records, manual records that are in the
\* ManualClientStore come in the order of the store, and the imported records
\* are the rows of one sheet of the workbook in the order of the sheet.
C4_WorkingSetOrder ==
  ~crashed =>
    /\ rows = ManualPart(rows) \o ImportedPart(rows)
    /\ \A i, j \in 1..Len(rows) :
         ( /\ i < j
           /\ IsManual(rows[i]) /\ IsManual(rows[j])
           /\ StorePos(manualClients, rows[i]._id) > 0
           /\ StorePos(manualClients, rows[j]._id) > 0 )
         => StorePos(manualClients, rows[i]._id)
              < StorePos(manualClients, rows[j]._id)
    /\ ImportedPart(rows) # <<>> =>
         \E n \in 1..Len(sheetNames) :
           [i \in 1..Len(ImportedPart(rows)) |->
              [ImportedPart(rows)[i] EXCEPT !.PromessaISO = <<>>, !._source = ""]]
             = extractRows(zone, SheetOf(wb, sheetNames[n])[1])

\* C4 witness: a working set with two manual records of the store, the newer
\* one added in this session, followed by the two rows of a loaded sheet
C4_Witness ==
  /\ ~crashed
  /\ Len(ManualPart(rows)) >= 2
  /\ Len(ImportedPart(rows)) >= 2
  /\ rows[1]._id = uid(0)
  /\ StorePos(manualClients, rows[1]._id) = 1
  /\ StorePos(manualClients, rows[2]._id) = 2

\* C5: re-applying mergePromisesIntoRows to a merged working set with the same
\* Promise Store changes nothing, for the working set of every reachable state
\* and for the composition of every sheet of the workbook with the stores.
C5_CompositionIdempotent ==
  ~crashed =>
    /\ LET m == mergePromisesIntoRows(rows, promises)
       IN  mergePromisesIntoRows(m, promises) = m
    /\ \A n \in 1..Len(sheetNames) :
         LET ws == composeRows(extractRows(zone, SheetOf(wb, sheetNames[n])[1]),
                               manualClients, promises)
         IN  /\ mergePromisesIntoRows(ws, promises) = ws
             /\ Len(ws) = Len(ArrOf(manualClients))
                            + Len(extractRows(zone, SheetOf(wb, sheetNames[n])[1]))

\* C5 witness: a composed working set of manual and imported records in which
\* the merge has put the stored promise date on a record
C5_Witness ==
  /\ ~crashed
  /\ ImportedPart(rows) # <<>>
  /\ ManualPart(rows) # <<>>
  /\ \E i \in 1..Len(rows) :
       /\ HasPromise(promises, keyForClientLike(rows[i]))
       /\ rows[i].PromessaISO # <<>>
       /\ rows[i].PromessaISO = promises.m[keyForClientLike(rows[i])].promiseISO

\* an unparseable file is being chosen, or its read is completing
FailedReadStep ==
  \/ \E f \in Files : f.workbook = "" /\ HandleFile(f)
  \/ Len(readers') < Len(readers) /\ alertMsg' = "Erro ao ler o arquivo"

\* C6 (as claimed): choosing a file that cannot be parsed changes none of
\* workbook, sheet names, selected sheet, file label, working set, filter,
\* search query and page.
C6_FailedReadChangesNothing ==
  [][FailedReadStep =>
       UNCHANGED <<wb, sheetNames, selectedSheet, fileLabel, rows, filter, q,
                   page>>]_vars

\* C7 (as claimed): whatever the persisted documents hold at process start,
\* start-up and every later operation complete without a hard failure and
\* start-up shows no error.
C7_StartupNeverFails ==
  /\ ~crashed
  /\ ops = 0 => alertMsg = ""

\* C8: once the page is mounted, and after every operation, the persisted
\* manual-client document is the in-memory ManualClientStore and the persisted
\* promise document is the in-memory promise map.
C8_PersistedEqualsMemory ==
  ~crashed =>
    /\ lsManual = Stringify(manualClients)
    /\ lsPromises = Stringify(promises)

\* C8 witness: a client was added and a promise was saved in this session, and
\* both documents hold them
C8_Witness ==
  /\ ~crashed
  /\ uidN > 0
  /\ \E p \in 1..Len(ArrOf(manualClients)) : ArrOf(manualClients)[p]._id = uid(0)
  /\ promiseKeys(promises) # {}
  /\ promises # JObj(OldPromises)
  /\ lsManual = Stringify(manualClients)
  /\ lsPromises = Stringify(promises)

(***************************************************************************)
(* Properties of the Temporal Classifier                                   *)
(***************************************************************************)

\* C9: for every record and every current date at most one of isPago,
\* venceHoje and atrasado holds: a paid record is neither due today nor
\* overdue whatever its due date, and no record is both due today and overdue.
C9_ClassificationExclusive ==
  out.done =>
    /\ out.pago => ~out.hoje /\ ~out.atr
    /\ ~(out.hoje /\ out.atr)

\* C9 witness: a record due today has been classified after midnight as due
\* today, or a paid record whose due date is in the past has been classified
C9_Witness ==
  /\ out.done
  /\ rec.VencimentoISO # <<>>
  /\ \/ /\ out.hoje
        /\ baseHoje(zone, today) < today
        /\ rec.VencimentoISO[1] = baseHoje(zone, today)
     \/ /\ out.pago
        /\ rec.VencimentoISO[1] < baseHoje(zone, today)

\* C10 (as claimed): daysLate is the number of whole calendar days from the
\* due date to today: 0 for today, k for k calendar days before today, 0 for a
\* record without due date; and an unpaid record with a due date and
\* daysLate = 0 is due today, never overdue.
C10_DaysLateCountsCalendarDays ==
  out.done =>
    /\ rec.VencimentoISO = <<>> => out.late = 0
    /\ ( /\ rec.VencimentoISO # <<>>
         /\ DayOf(zone, rec.VencimentoISO[1]) <= DayOf(zone, today) )
       => out.late = DayOf(zone, today) - DayOf(zone, rec.VencimentoISO[1])
    /\ (rec.VencimentoISO # <<>> /\ ~out.pago /\ out.late = 0)
       => out.hoje /\ ~out.atr

\* C11 (as claimed): whenever a record is classified, isDueToday, isOverdue
\* and daysLate are computed against the calendar day of that moment, also
\* when the day has changed since the page was opened.
C11_ClassifiesAgainstCurrentDay ==
  [][Classify =>
       /\ out'.hoje = venceHoje(zone, now, rec)
       /\ out'.atr = atrasado(zone, now, rec)
       /\ out'.late = daysLate(zone, now, rec)]_vars

(***************************************************************************)
(* Properties of the bulk selector                                         *)
(***************************************************************************)

\* the lines of a text
RECURSIVE Lines(_)
Lines(text) ==
  IF text = <<>> THEN <<>>
  ELSE LET brk == {i \in 1..Len(text) : text[i] = "\n"}
       IN  IF brk = {} THEN <<text>>
           ELSE LET i == CHOOSE x \in brk : \A y \in brk : x <= y
                IN  <<SubSeq(text, 1, i - 1)>> \o Lines(SubSeq(text, i + 1, Len(text)))

EndsWith(s, t) == Len(s) >= Len(t) /\ SubSeq(s, Len(s) - Len(t) + 1, Len(s)) = t

\* whole calendar days from the due date of a record to today
CalendarDaysLate(r) ==
  IF r.VencimentoISO = <<>> THEN 0
  ELSE DayOf(zone, today) - DayOf(zone, r.VencimentoISO[1])

\* the mode predicates: due today and not paid; overdue, not paid and more
\* than 5 days late; overdue, not paid and 1 to 5 days late
ModeHolds(kind, r) ==
  LET open == ~isPago(r)
  IN  \/ kind = "HOJE" /\ venceHoje(zone, today, r) /\ open
      \/ kind = "QUEBRAS" /\ atrasado(zone, today, r) /\ open
           /\ CalendarDaysLate(r) > 5
      \/ kind = "ATRASADO_1_5" /\ atrasado(zone, today, r) /\ open
           /\ CalendarDaysLate(r) \in 1..5

\* the records of the current view that a mode selects and that have a phone
\* of at least 10 digits
Selected(kind) ==
  SelectSeq(filtered(zone, today, rows, filter, q),
            LAMBDA r : ModeHolds(kind, r) /\ Len(onlyDigits(r.Telefone)) >= 10)

\* C12 (as claimed): for every view and mode, what the bulk copy puts on the
\* clipboard has one line per record of the view that matches the mode's
\* predicate and has at least 10 phone digits, in the order of the view, one
\* line for each record even when phones are equal, and nothing else.
C12_BulkSelectionExact ==
  [][\A kind \in BulkKinds :
       CopyBulkFromCurrentView(kind) =>
         /\ Len(Lines(out'.text)) = Len(Selected(kind))
         /\ \A i \in 1..Len(Selected(kind)) :
              EndsWith(Lines(out'.text)[i], onlyDigits(Selected(kind)[i].Telefone))]_vars

\* the phones of the records the bulk copy took from the view, digits only,
\* without those of fewer than 10 digits
TakenDigits(kind) ==
  LET list == SelectSeq(filtered(zone, today, rows, filter, q),
                        LAMBDA r : bulkMatches(zone, today, kind, r))
      long == SelectSeq(list, LAMBDA r : Len(onlyDigits(r.Telefone)) >= 10)
  IN  [i \in 1..Len(long) |-> onlyDigits(long[i].Telefone)]

\* C13: for the records it takes, the bulk copy emits nothing for a phone of
\* fewer than 10 digits and otherwise the digits of the phone with "55"
\* prepended unless they already begin with "55"; every emitted string is
\* made of digits only and begins with "55".
C13_BulkPhonesNormalised ==
  [][\A kind \in BulkKinds :
       CopyBulkFromCurrentView(kind) =>
         /\ Len(Lines(out'.text)) = Len(TakenDigits(kind))
         /\ \A i \in 1..Len(Lines(out'.text)) :
              LET line == Lines(out'.text)[i]
                  d    == TakenDigits(kind)[i]
              IN  /\ \A c \in 1..Len(line) : line[c] \in Digits
                  /\ StartsWith(line, <<"5", "5">>)
                  /\ line = (IF StartsWith(d, <<"5", "5">>) THEN d
                             ELSE <<"5", "5">> \o d)]_vars

\* C13 witness: a phone already beginning with 55 was emitted as it is, after
\* a formatted phone that got the prefix, and a phone of 8 digits was dropped
C13_Witness ==
  /\ out.done /\ out.copied
  /\ Len(rows) = 2
  /\ \/ /\ rows[1].Telefone = TEL_A /\ rows[2].Telefone = TEL_55
        /\ Lines(out.text) = << <<"5", "5">> \o onlyDigits(TEL_A), TEL_55 >>
     \/ /\ rows[1].Telefone = TEL_SHORT /\ rows[2].Telefone = TEL_55
        /\ out.count = 2
        /\ Lines(out.text) = <<TEL_55>>

(***************************************************************************)
(* Properties of the identity resolver and of the Promise Store            *)
(***************************************************************************)
NumDigits(s) == Cardinality({i \in 1..Len(s) : s[i] \in Digits})

\* C14: the key of a record is the id-based key when its national id has at
\* least 8 digits, otherwise the phone-based key when its phone has at least
\* 10 digits, otherwise empty; it is made of the digits alone, so two records
\* whose ids and phones have the same digits get the same key.
C14_KeyDependsOnDigitsOnly ==
  out.done =>
    /\ \A i \in {1, 2} :
         LET k == out.keys[i]
         IN  /\ NumDigits(rec[i].CPF) >= 8
                  => k = <<"c", "p", "f", ":">> \o onlyDigits(rec[i].CPF)
             /\ (NumDigits(rec[i].CPF) < 8 /\ NumDigits(rec[i].Telefone) >= 10)
                  => k = <<"t", "e", "l", ":">> \o onlyDigits(rec[i].Telefone)
             /\ (NumDigits(rec[i].CPF) < 8 /\ NumDigits(rec[i].Telefone) < 10)
                  => k = <<>>
             /\ \A c \in 5..Len(k) : k[c] \in Digits
    /\ ( /\ onlyDigits(rec[1].CPF) = onlyDigits(rec[2].CPF)
         /\ onlyDigits(rec[1].Telefone) = onlyDigits(rec[2].Telefone) )
       => out.keys[1] = out.keys[2]

\* C14 witness: "123.456.789-00" and "12345678900" were resolved to the same
\* id-based key, whatever the phones
C14_Witness ==
  /\ out.done
  /\ rec[1].CPF = CPF_FMT /\ rec[2].CPF = CPF_DIG
  /\ rec[1].Telefone # rec[2].Telefone
  /\ out.keys[1] = <<"c", "p", "f", ":">> \o CPF_DIG
  /\ out.keys[2] = out.keys[1]

\* the key the identity resolver derives from the values of a promise form
FormKey(form) ==
  keyForClientLike([CPF |-> Trim(form.CPF), Telefone |-> Trim(form.Telefone)])

\* C15 (as claimed): a promise saved through the promise form is stored under
\* the key the identity resolver derives from its national id and phone, the
\* key to which a client record with the same values resolves, and under a
\* synthetic key only when the resolver derives none.
C15_PromiseStoredUnderResolverKey ==
  [][\A form \in PromiseForms :
       (SavePromiseFromForm(form) /\ promises' # promises) =>
         \E x \in SavedKeys :
           /\ promises'.m[x].promiseISO = dateInputToISO(zone, form.promiseDate)
           /\ IF FormKey(form) # <<>> THEN x = FormKey(form)
              ELSE StartsWith(x, <<"c", "u", "s", "t", "o", "m", ":">>)]_vars

\* the entries of a promise map
PromiseEntries(P) ==
  IF P.k = "obj" THEN {<<x, P.m[x]>> : x \in DOMAIN P.m} ELSE {}

\* the keys whose entry differs between two promise maps
ChangedKeys(P, Q) ==
  {e[1] : e \in (PromiseEntries(P) \ PromiseEntries(Q))
                  \cup (PromiseEntries(Q) \ PromiseEntries(P))}

ClientOrImportStep ==
  \/ \E f \in Files : HandleFile(f)
  \/ \E i \in 1..MaxPending : ReaderOnload(i)
  \/ \E name \in {"Plan1", "Plan2", "Base"} : SelectSheet(name)
  \/ LoadSelectedSheet
  \/ \E form \in ClientForms : SaveManualClient(form)
  \/ \E ok \in BOOLEAN : DeleteAllManualClients(ok)

PromiseStep ==
  \/ \E form \in PromiseForms : SavePromiseFromForm(form)
  \/ SavePromiseDraft
  \/ \E key \in promiseKeys(promises), ok \in BOOLEAN : RemovePromiseByKey(key, ok)

\* C16: manual delete-all, manual add, file selection and sheet load leave
\* the promise map unchanged, also the entries whose key no record of the
\* working set resolves to; only a promise save or removal changes the map,
\* and it changes the entry of one key only.
C16_PromiseStoreFrame ==
  [][/\ promises' = promises \/ ~ClientOrImportStep
     /\ ChangedKeys(promises, promises') # {} =>
          /\ PromiseStep
          /\ Cardinality(ChangedKeys(promises, promises')) = 1]_vars

\* C16 witness: after a delete-all no record is left in the working set and
\* the promise stored for a client is still in the map and in its document
C16_Witness ==
  /\ ~crashed
  /\ ops > 0
  /\ rows = <<>>
  /\ manualClients = JArr(<<>>)
  /\ promiseKeys(promises) # {}
  /\ lsPromises = Stringify(promises)

\* no record of a ManualClientStore value carries a promise date
NoStoredPromiseDate(mc) ==
  \A p \in 1..Len(ArrOf(mc)) : ArrOf(mc)[p].PromessaISO = <<>>

StoreIsBare ==
  ~crashed =>
    /\ NoStoredPromiseDate(manualClients)
    /\ lsManual.t = "json" /\ NoStoredPromiseDate(lsManual.v)

\* C17: in every reachable state no record of the ManualClientStore, in
\* memory or persisted, carries a promise date, and a promise save or removal
\* leaves the stored manual records and their document unchanged.
C17_OverlayIsPure ==
  [][/\ StoreIsBare
     /\ StoreIsBare'
     /\ (manualClients' = manualClients /\ lsManual' = lsManual) \/ ~PromiseStep]_vars

\* C17 witness: a client added in this session has a promise, the working set
\* shows the promise date on it and the store does not
C17_Witness ==
  /\ ~crashed
  /\ \E i \in 1..Len(rows) :
       /\ rows[i]._id = uid(0)
       /\ rows[i].PromessaISO # <<>>
       /\ StorePos(manualClients, uid(0)) > 0
       /\ ArrOf(manualClients)[StorePos(manualClients, uid(0))].PromessaISO = <<>>
       /\ HasPromise(promises, keyForClientLike(rows[i]))
  /\ lsManual = Stringify(manualClients)

(***************************************************************************)
(* Properties of the ManualClientStore                                     *)
(***************************************************************************)
OtherThanClientStep ==
  \/ \E f \in Files : HandleFile(f)
  \/ \E i \in 1..MaxPending : ReaderOnload(i)
  \/ \E name \in {"Plan1", "Plan2", "Base"} : SelectSheet(name)
  \/ LoadSelectedSheet
  \/ PromiseStep
  \/ \E i \in 1..(MaxUid + 4) : OpenPromiseForClient(i)
  \/ \E f \in Filters : SetFilter(f)
  \/ \E text \in Queries : SetQ(text)
  \/ \E tipo \in {"csv", "xlsx"} : Exportar(tipo)

\* C18: the ManualClientStore changes only by a create, which puts the new
\* record at the head and keeps the earlier records in their order, and by a
\* delete-all, which empties it; file selection, sheet load, promise
\* operations, filtering and export leave it unchanged.
C18_ManualStoreFrame ==
  [][/\ manualClients' = manualClients \/ ~OtherThanClientStep
     /\ manualClients' # manualClients =>
          \/ /\ \E form \in ClientForms : SaveManualClient(form)
             /\ Len(ArrOf(manualClients')) = Len(ArrOf(manualClients)) + 1
             /\ Tail(ArrOf(manualClients')) = ArrOf(manualClients)
             /\ StorePos(manualClients, Head(ArrOf(manualClients'))._id) = 0
          \/ /\ DeleteAllManualClients(TRUE)
             /\ ArrOf(manualClients') = <<>>]_vars

\* C18 witness: two clients were created in this session; the second one is
\* at the head, the first one next, the records of earlier sessions after them
C18_Witness ==
  /\ ~crashed
  /\ Len(ArrOf(manualClients)) = 4
  /\ ArrOf(manualClients)[1]._id = uid(1)
  /\ ArrOf(manualClients)[2]._id = uid(0)
  /\ SubSeq(ArrOf(manualClients), 3, 4) = OldClients

(***************************************************************************)
(* Properties of the Header Heuristics Engine and of the Row Normalizer    *)
(***************************************************************************)
HasBothLabels(row) ==
  /\ \E c \in 1..Len(row) : looksCpf(row[c])
  /\ \E c \in 1..Len(row) : looksNome(row[c])

HasThreeCells(row) ==
  \E a, b, c \in 1..Len(row) :
    /\ a < b /\ b < c
    /\ Trim(row[a]) # <<>> /\ Trim(row[b]) # <<>> /\ Trim(row[c]) # <<>>

\* the 0-based indices of the rows of the sheet inside the scan window
Window == {i \in 0..24 : i < Len(rec)}

\* C19: header detection returns the first row among the first 25 with a
\* national-id label and a name label, whatever blank or banner rows come
\* before it; without such a row the first row among the first 25 with at
\* least 3 non-empty cells; without that either, row 0; never row 25 or more.
C19_HeaderDetection ==
  out.done =>
    LET h == out.headerRow
    IN  /\ h \in 0..24
        /\ (\E i \in Window : HasBothLabels(rec[i + 1])) =>
             /\ HasBothLabels(rec[h + 1])
             /\ \A j \in 0..(h - 1) : ~HasBothLabels(rec[j + 1])
        /\ ( /\ \A i \in Window : ~HasBothLabels(rec[i + 1])
             /\ \E i \in Window : HasThreeCells(rec[i + 1]) ) =>
             /\ HasThreeCells(rec[h + 1])
             /\ \A j \in 0..(h - 1) : ~HasThreeCells(rec[j + 1])
        /\ (\A i \in Window : ~HasBothLabels(rec[i + 1]) /\ ~HasThreeCells(rec[i + 1]))
             => h = 0

\* C19 witness: the header row was found at index 24 after 24 banner rows,
\* or the labelled row at index 25 was passed over for row 0
C19_Witness ==
  /\ out.done
  /\ rec[1] = BannerRow
  /\ \/ out.headerRow = 24 /\ HasBothLabels(rec[25])
     \/ out.headerRow = 0 /\ Len(rec) > 25 /\ HasBothLabels(rec[26])

\* the objects of the rows below the detected header row and what mapRow
\* makes of them
RawObjects == sheetToJson(rec, out.headerRow)
MappedOf(i) == mapRow(zone, RawObjects[i])
Survives(i) ==
  MappedOf(i).CPF # <<>> \/ MappedOf(i).Nome # <<>> \/ MappedOf(i).Telefone # <<>>
Rank(i) == Cardinality({j \in 1..i : Survives(j)})

\* C20: a row below the header yields no record if and only if its mapped
\* national id, name and phone are all empty after trimming; every other row
\* yields exactly one record, in the order of the sheet, also when its date
\* cell cannot be parsed, and then the record has no due date.
C20_RowSurvival ==
  out.done =>
    /\ Len(out.mapped) = Cardinality({i \in 1..Len(RawObjects) : Survives(i)})
    /\ \A i \in 1..Len(RawObjects) :
         Survives(i) =>
           LET r == out.mapped[Rank(i)]
           IN  /\ r.CPF = MappedOf(i).CPF
               /\ r.Nome = MappedOf(i).Nome
               /\ r.Telefone = MappedOf(i).Telefone
               /\ r._id = DecStr(Rank(i))
               /\ r.VencimentoISO = excelToDate(zone, getBy(RawObjects[i],
                    {<<"d", "a", "t", "a">>}, {<<"v", "e", "n", "c">>}))
    /\ \A k \in 1..Len(out.mapped) :
         LET r == out.mapped[k]
         IN  /\ r.CPF # <<>> \/ r.Nome # <<>> \/ r.Telefone # <<>>
             /\ r.CPF = Trim(r.CPF) /\ r.Nome = Trim(r.Nome)
             /\ r.Telefone = Trim(r.Telefone)

\* C20 witness: of a complete row and a row with a name, a short phone and
\* the date cell "sem", both were kept, the second one without due date
C20_Witness ==
  /\ out.done
  /\ Len(rec) = 3
  /\ rec[3][4] = <<"s", "e", "m">>
  /\ Len(out.mapped) = 2
  /\ out.mapped[1].VencimentoISO # <<>>
  /\ out.mapped[2].Nome = CAIO
  /\ out.mapped[2].VencimentoISO = <<>>

(***************************************************************************)
(* Properties of the import, the messaging link and the export             *)
(***************************************************************************)
\* no cell of the detected header row names a national-id, name or phone column
NoColumnResolved(aoa) ==
  LET hdr == aoa[findHeaderRow(aoa) + 1]
      probe(c) == mapRow(NoZone, << <<hdr[c], <<"x">>>> >>)
  IN  \A c \in 1..Len(hdr) :
        probe(c).CPF = <<>> /\ probe(c).Nome = <<>> /\ probe(c).Telefone = <<>>

\* the working set is the ManualClientStore, record by record, each with the
\* promise date stored under its key and with none when nothing is stored
ManualRecordsWithOverlays(rs, mc, P) ==
  /\ Len(rs) = Len(ArrOf(mc))
  /\ \A i \in 1..Len(rs) :
       LET k == keyForClientLike(rs[i])
       IN  /\ IsManual(rs[i])
           /\ rs[i]._id = ArrOf(mc)[i]._id
           /\ rs[i].Nome = ArrOf(mc)[i].Nome
           /\ rs[i].PromessaISO =
                IF k # <<>> /\ HasPromise(P, k) THEN P.m[k].promiseISO ELSE <<>>

\* C21: loading a sheet in which no column is recognised completes with zero
\* extracted rows: the working set is then exactly the manual records with
\* their overlays, it holds no imported record, no alert is raised and the
\* page keeps running; and while there is no workbook or no selected sheet the
\* working set holds no imported record.
C21_UnresolvableImportsNothing ==
  [][/\ \/ ~LoadSelectedSheet
        \/ ~NoColumnResolved(SheetOf(wb, selectedSheet)[1])
        \/ /\ ManualRecordsWithOverlays(rows', manualClients, promises)
           /\ ImportedPart(rows') = <<>>
           /\ alertMsg' = ""
           /\ ~crashed'
           /\ manualClients' = manualClients /\ promises' = promises
     /\ (wb' = "" \/ selectedSheet' = "") => ImportedPart(rows') = <<>>]_vars

\* C21 witness: the sheet "Base", which has no recognisable column, is the
\* selected sheet of the workbook and the working set holds the stored manual
\* clients, one of them with its promise date, and nothing else
C21_Witness ==
  /\ wb = "W2" /\ selectedSheet = "Base"
  /\ NoColumnResolved(SheetOf(wb, selectedSheet)[1])
  /\ readers = <<>>
  /\ ops >= 3
  /\ alertMsg = ""
  /\ Len(rows) >= 2
  /\ ImportedPart(rows) = <<>>
  /\ \E i \in 1..Len(rows) : rows[i].PromessaISO # <<>>

\* the digits of a phone with the country prefix put in front unless the
\* digits already begin with it
ForcedDigits(tel) ==
  LET d == [i \in 1..NumDigits(tel) |->
             LET at == CHOOSE k \in 1..Len(tel) :
                         /\ tel[k] \in Digits
                         /\ NumDigits(SubSeq(tel, 1, k)) = i
             IN  tel[at]]
  IN  IF Len(d) >= 2 /\ d[1] = "5" /\ d[2] = "5" THEN d ELSE <<"5", "5">> \o d

\* C22: the messaging link is produced only when the phone, stripped to its
\* digits and with the country prefix "55" forced, has at least 12 digits, and
\* then the link is opened; for any other phone no link is produced, the alert
\* is raised at once and nothing is opened.
C22_LinkOnlyForLongPhones ==
  (out.done /\ out.op = "whats") =>
    IF Len(ForcedDigits(rec.Telefone)) >= 12
    THEN /\ out.wa # <<>>
         /\ StartsWith(out.wa, WA_BASE \o ForcedDigits(rec.Telefone) \o WA_TEXT)
         /\ out.opened = <<out.wa>>
         /\ alertMsg = ""
    ELSE /\ out.wa = <<>>
         /\ out.opened = <<>>
         /\ alertMsg # ""

\* C22 witness: a phone typed with punctuation and without the country prefix
\* got its link opened
C22_Witness ==
  /\ out.done /\ out.op = "whats"
  /\ rec.Telefone = <<"(">> \o SubSeq(PHONE_DIGITS, 1, 10) \o <<"-">>
  /\ out.opened # <<>>
  /\ rec.msg # <<>>

\* reading delimited text by the quoted-field rule: a field that begins with
\* a quote runs to the next quote that is not doubled, a doubled quote inside
\* it stands for one quote; any other field runs to the next comma or line
\* break.  mode is "start", "plain", "quoted" or "closed" (after the closing
\* quote); the result is the sequence of records, each a sequence of fields.
RECURSIVE ReadDelimited(_, _, _, _, _, _)
ReadDelimited(text, i, mode, field, record, records) ==
  IF i > Len(text) THEN records \o <<record \o <<field>>>>
  ELSE
    LET c == text[i]
    IN  IF mode = "quoted"
        THEN IF c = "\""
             THEN ReadDelimited(text, i + 1, "closed", field, record, records)
             ELSE ReadDelimited(text, i + 1, "quoted", field \o <<c>>, record, records)
        ELSE IF c = "\"" /\ mode = "closed"
        THEN ReadDelimited(text, i + 1, "quoted", field \o <<c>>, record, records)
        ELSE IF c = "\"" /\ mode = "start"
        THEN ReadDelimited(text, i + 1, "quoted", field, record, records)
        ELSE IF c = ","
        THEN ReadDelimited(text, i + 1, "start", <<>>, record \o <<field>>, records)
        ELSE IF c = "\n"
        THEN ReadDelimited(text, i + 1, "start", <<>>, <<>>,
                           records \o <<record \o <<field>>>>)
        ELSE ReadDelimited(text, i + 1, "plain", field \o <<c>>, record, records)

NeedsQuotes(f) == \E i \in 1..Len(f) : f[i] = "," \/ f[i] = "\"" \/ f[i] = "\n"

\* the number of quote characters of a string
QuoteCount(f) == Cardinality({i \in 1..Len(f) : f[i] = "\""})

\* C23: in the exported text every field that contains the delimiter, a
\* quote or a line break is wrapped in quotes with the quotes inside doubled,
\* every other field is written as it is, and reading the text back by the
\* quoted-field rule gives the header names and then exactly the original
\* fields.
C23_ExportRoundTrips ==
  (out.done /\ rec # <<>>) =>
    LET text == out.blob[1]
        f    == rec[1][1][2]
        g    == rec[1][2][2]
        back == ReadDelimited(text, 1, "start", <<>>, <<>>, <<>>)
        body == SubSeq(text, 10, Len(text))
        cut  == Len(body) - Len(esc(g)) - 1
        sf   == SubSeq(body, 1, cut)
    IN  /\ back = << <<rec[1][1][1], rec[1][2][1]>>, <<f, g>> >>
        /\ body[cut + 1] = ","
        /\ IF NeedsQuotes(f)
           THEN /\ Len(sf) = Len(f) + QuoteCount(f) + 2
                /\ sf[1] = "\"" /\ sf[Len(sf)] = "\""
                /\ QuoteCount(sf) = 2 * QuoteCount(f) + 2
           ELSE sf = f

\* C23 witness: a field with a comma and a quote inside was exported
C23_Witness ==
  /\ out.done /\ rec # <<>>
  /\ rec[1][1][2] = <<"a", ",", "\"">>
  /\ out.blob # <<>>

\* C24 (as claimed): records are never merged by identity: in every
\* reachable state the working set has one manual record per entry of the
\* ManualClientStore and one imported record per surviving row of the loaded
\* sheet, and records that resolve to the same identity key carry the same
\* promise overlay.
C24_NoDeduplication ==
  ~crashed =>
    /\ Len(ManualPart(rows)) = Len(ArrOf(manualClients))
    /\ \A p \in 1..Len(ArrOf(manualClients)) :
         Cardinality({i \in 1..Len(rows) :
                        IsManual(rows[i]) /\ rows[i]._id = ArrOf(manualClients)[p]._id}) = 1
    /\ ImportedPart(rows) # <<>> =>
         \E n \in 1..Len(sheetNames) :
           Len(ImportedPart(rows)) = Len(extractRows(zone, SheetOf(wb, sheetNames[n])[1]))
    /\ \A i, j \in 1..Len(rows) :
         ( /\ keyForClientLike(rows[i]) # <<>>
           /\ keyForClientLike(rows[i]) = keyForClientLike(rows[j]) )
         => rows[i].PromessaISO = rows[j].PromessaISO

\* C25: the imported records of the working set carry the positions 1, 2,
\* ... of their batch as ids, and in every reachable state no two records of
\* the working set have the same source and the same id.
C25_IdsUniquePerSource ==
  ~crashed =>
    /\ \A i \in 1..Len(ImportedPart(rows)) : ImportedPart(rows)[i]._id = DecStr(i)
    /\ \A i, j \in 1..Len(rows) :
         (rows[i]._source = rows[j]._source /\ rows[i]._id = rows[j]._id) => i = j

\* C25 witness: two clients added in this session on top of the stored ones,
\* followed by the two rows of a loaded sheet
C25_Witness ==
  /\ ~crashed
  /\ uidN = 2
  /\ Len(ManualPart(rows)) >= 4
  /\ Len(ImportedPart(rows)) = 2
  /\ rows[1]._id = uid(1) /\ rows[2]._id = uid(0)

\* C26 (as claimed): every number the bulk selector emits for a record is
\* one the messaging link accepts: it has at least 12 digits and
\* buildWhatsLinkBR returns a link for the phone of the record.
C26_BulkPhonesAreLinkable ==
  (out.done /\ out.op = "bulk" /\ out.text # <<>>) =>
    /\ Len(out.text) >= 12
    /\ buildWhatsLinkBR(rec.Telefone, rec.msg) # <<>>

\* C27 (as claimed): the two overdue modes partition the overdue records:
\* a bulk copy in an overdue mode takes the records of the view that match
\* that mode, every record of the view that is overdue, not paid and has at
\* least 10 phone digits matches exactly one of the two overdue modes, and no
\* record matches the due-today mode and an overdue mode.
C27_OverdueModesPartition ==
  [][\A kind \in {"QUEBRAS", "ATRASADO_1_5"} :
       \/ ~CopyBulkFromCurrentView(kind)
       \/ LET view  == filtered(zone, today, rows, filter, q)
              other == IF kind = "QUEBRAS" THEN "ATRASADO_1_5" ELSE "QUEBRAS"
              m(k, i) == bulkMatches(zone, today, k, view[i])
          IN  /\ out'.count = Cardinality({i \in 1..Len(view) : m(kind, i)})
              /\ \A i \in 1..Len(view) :
                   /\ ( /\ atrasado(zone, today, view[i])
                        /\ ~isPago(view[i])
                        /\ Len(onlyDigits(view[i].Telefone)) >= 10 )
                      => (m(kind, i) # m(other, i))
                   /\ ~(m(kind, i) /\ m(other, i))
                   /\ ~(m("HOJE", i) /\ (m(kind, i) \/ m(other, i)))]_vars

\* the number of entries of a promise map
EntryCount(P) == Cardinality(PromiseEntries(P))

\* C28 (as claimed): a promise saved from the action menu of a record is
\* attached to that record.  The modal is opened on the key the record
\* resolves to, for every record, and saving the modal stores the promise
\* under the key of the modal, overwriting the entry of that key when there
\* is one and adding one entry otherwise; so opening and saving again for the
\* same record never makes a second entry.
C28_MenuPromiseAttachedToRecord ==
  [][/\ \A i \in 1..Len(rows) :
          \/ ~OpenPromiseForClient(i)
          \/ promiseDraft'.key = keyForClientLike(rows[i])
     /\ \/ ~SavePromiseDraft
        \/ promises' = promises
        \/ /\ HasPromise(promises', promiseDraft.key)
           /\ ChangedKeys(promises, promises') = {promiseDraft.key}
           /\ EntryCount(promises') =
                EntryCount(promises)
                  + (IF HasPromise(promises, promiseDraft.key) THEN 0 ELSE 1)]_vars

\* a read in flight completes and its file is parsed
ParsedReadStep ==
  /\ \E i \in 1..MaxPending : ReaderOnload(i)
  /\ alertMsg' = ""

\* C29: when the completion callback of a read has parsed the workbook, the
\* working set holds manual records only, the selected sheet is the first
\* sheet of that workbook, the filter is TODOS and the search is empty; and a
\* working set without imported records gets imported records only by a
\* sheet load.
C29_FileSelectionDiscardsImport ==
  [][/\ \/ ~ParsedReadStep
        \/ /\ \A i \in 1..Len(rows') : IsManual(rows'[i])
           /\ wb' # ""
           /\ sheetNames' = SheetNamesOf(wb')
           /\ selectedSheet' = SheetNamesOf(wb')[1]
           /\ filter' = "TODOS"
           /\ q' = <<>>
     /\ \/ ImportedPart(rows) # <<>>
        \/ ImportedPart(rows') = <<>>
        \/ LoadSelectedSheet]_vars

\* C29 witness: a sheet of the first workbook was loaded, then the second
\* file was chosen and read: its first sheet is selected and the working set
\* holds the stored manual clients and nothing else
C29_Witness ==
  /\ ops = MaxOps
  /\ wb = "W2" /\ fileLabel = "b.xlsx" /\ selectedSheet = "Base"
  /\ readers = <<>>
  /\ alertMsg = ""
  /\ page = "dashboard"
  /\ filter = "TODOS" /\ q = <<>>
  /\ Len(rows) = 2
  /\ ImportedPart(rows) = <<>>

\* a string is empty after trimming: it has nothing but white space
BlankText(t) == \A i \in 1..Len(t) : IsSpace(t[i])

\* C30: a rejected create changes nothing: when the name or the phone of the
\* form is empty after trimming, or the due date is missing, saveManualClient
\* leaves the ManualClientStore, the working set, the form and the persisted
\* documents as they are; otherwise it adds exactly one record to the store
\* and exactly one manual record to the working set.
C30_RejectedCreateChangesNothing ==
  [][\/ ~SubmitClientForm
     \/ IF BlankText(rec.Nome) \/ BlankText(rec.Telefone) \/ rec.VencDate = <<>>
        THEN /\ manualClients' = manualClients
             /\ rows' = rows
             /\ rec' = rec
             /\ lsManual' = lsManual /\ lsPromises' = lsPromises
        ELSE /\ Len(ArrOf(manualClients')) = Len(ArrOf(manualClients)) + 1
             /\ Tail(ArrOf(manualClients')) = ArrOf(manualClients)
             /\ Len(ManualPart(rows')) = Len(ManualPart(rows)) + 1
             /\ Len(ImportedPart(rows')) = Len(ImportedPart(rows))
             /\ Head(rows')._id = Head(ArrOf(manualClients'))._id
             /\ IsManual(Head(rows'))]_vars

\* C30 witness: the form still holds a name with a blank phone and a due date
\* after Salvar was refused, and nothing was added to the stored clients
C30_Witness ==
  /\ rec.Nome = ANA /\ BlankText(rec.Telefone) /\ rec.VencDate # <<>>
  /\ alertMsg = "Preencha pelo menos Nome e Telefone"
  /\ manualClients = JArr(OldClients)
  /\ Len(rows) = Len(OldClients)
  /\ lsManual = Stringify(manualClients)

====
